---------------------------- MODULE Spec2Model ----------------------------
(***************************************************************************)
(* A model of goline's text engines, of its ignore controller and of the    *)
(* goroutine of its providers:                                              *)
(*   - ConstructNewFileContent (internal/core/assistant-message/diff.go),  *)
(*     the SEARCH/REPLACE diff reconciliation, with its two fallback       *)
(*     matchers, and ParseDiff of the same file;                           *)
(*   - ParseAssistantMessage (internal/assistant/message/parser.go), the   *)
(*     streaming assistant-message parser;                                 *)
(*   - Controller and Watcher (internal/core/ignore), the .golineignore    *)
(*     access control and the polling of the file;                         *)
(*   - the goroutine of Provider.CreateMessage (internal/provider), which  *)
(*     sends the events of a response on a channel.                        *)
(*                                                                         *)
(* A Go string is modelled as a sequence of one-character strings, so      *)
(* that len, slicing, strings.Index, strings.Split and strings.TrimSpace   *)
(* are computed as the Go code computes them.  Offsets are Go's 0-based    *)
(* byte offsets; all characters of the model are ASCII.                    *)
(*                                                                         *)
(* A Go run-time panic (slice bounds out of range) is a possible outcome   *)
(* of a call and is modelled as the status "panic".                        *)
(***************************************************************************)
EXTENDS Integers, Sequences, FiniteSets, TLC

VARIABLES
    \* ---- ConstructNewFileContent: parameters
    diffContent, originalContent, isFinal,
    \* ---- ConstructNewFileContent: locals
    lines, lineIdx, result, lastProcessedIndex,
    currentSearchContent, currentReplaceContent, inSearch, inReplace,
    searchMatchIndex, searchEndIndex,
    \* ---- ConstructNewFileContent: outcome ("" / "ok" / "error" / "panic")
    status, ret,
    \* ---- history of the matches made at divider lines (ghost)
    matches,
    \* ---- ParseAssistantMessage: locals
    contentBlocks, currentTextContent, currentTextContentStartIndex,
    currentToolUse, currentToolUseStartIndex, currentParamName,
    currentParamValueStartIndex, accumulator,
    \* ---- ParseAssistantMessage: outcome (the returned blocks, abort flag)
    parsed, aborted,
    \* ---- the assistant message as it arrives: the rest of the piece being
    \* read, where the message is in its layout, how many pieces it may
    \* still take
    chunk, phase, piecesLeft,
    \* ---- a direct call of a fallback matcher: parameters (with
    \* originalContent), which one was called, what it returned
    callSearchContent, callStartIndex, matcher, retStartIndex, retEndIndex,
    retErr,
    \* ---- ParseDiff (its parameter is diffContent): the matches of the
    \* regular expression, the one the loop is at, the blocks collected,
    \* the outcome ("" / "ok" / "error")
    submatches, matchNum, diffBlocks, parseDiffStatus,
    \* ---- the .golineignore file of the working directory
    fileExists, fileContent, fileModTime,
    \* ---- ignore.Controller: fields
    golineIgnoreContent, ignoreInstance,
    \* ---- the last call of ValidateAccess or ValidateCommand: which of
    \* the two, its argument and what it returned; a call of ValidateAccess
    \* between its nil check and its match is "checking", one that read the
    \* patterns through a nil pointer is "aborted"
    asked, accessPath, accessRet, commandLine, commandRet,
    \* ---- ignore.Watcher: field, where its goroutine is, its stopChan,
    \* the ticks waiting in the channel of its ticker
    lastModTime, watchPc, stopChan, tickerC,
    \* ---- whether the file changed under the watcher ("none"), a change
    \* is not yet followed by a Reload of the watcher ("pending") or the
    \* last one is ("followed") (ghost)
    change,
    \* ---- the patterns that the last call of Reload by the program
    \* replaced (ghost)
    replaced,
    \* ---- Provider.CreateMessage: where its goroutine is, the events it has
    \* yet to send for the line it read, whether it returns after them, the
    \* event channel, the upstream response, the context, the consumer of
    \* the channel, the lines the response may still deliver and the events
    \* the consumer received
    goPc, pendingEvents, returnAfter, eventCh, upstream, ctx, consumer,
    linesLeft, received,
    \* ---- control: which function is running and where it is
    pc

diffVars == <<diffContent, originalContent, isFinal, lines, lineIdx, result,
              lastProcessedIndex, currentSearchContent, currentReplaceContent,
              inSearch, inReplace, searchMatchIndex, searchEndIndex, status,
              ret, matches>>

parseVars == <<contentBlocks, currentTextContent,
               currentTextContentStartIndex, currentToolUse,
               currentToolUseStartIndex, currentParamName,
               currentParamValueStartIndex, accumulator, parsed, aborted>>

streamVars == <<chunk, phase, piecesLeft>>

matchVars == <<callSearchContent, callStartIndex, matcher, retStartIndex,
               retEndIndex, retErr>>

splitVars == <<submatches, matchNum, diffBlocks, parseDiffStatus>>

\* the state of ParseDiff and of the ignore controller and its watcher
ignoreVars == <<fileExists, fileContent, fileModTime, golineIgnoreContent,
                ignoreInstance, asked, accessPath, accessRet, commandLine,
                commandRet, lastModTime, watchPc, stopChan, tickerC, change,
                replaced>>

providerVars == <<goPc, pendingEvents, returnAfter, eventCh, upstream, ctx,
                  consumer, linesLeft, received>>

restVars == <<splitVars, ignoreVars, providerVars>>

\* what a call of ConstructNewFileContent, and what a call of
\* ParseAssistantMessage, leaves alone
outsideDiff == <<parseVars, streamVars, matchVars, restVars>>
outsideParser == <<diffVars, matchVars, restVars>>

vars == <<diffVars, parseVars, streamVars, matchVars, restVars, pc>>

-----------------------------------------------------------------------------
(* Go strings as sequences of characters                                   *)

NL == "\n"

\* unicode.IsSpace restricted to ASCII
IsSpace(c) == c \in {" ", "\t", "\n", "\r", "\f"}

\* s[lo:hi] is legal in Go iff 0 <= lo <= hi <= len(s)
SliceOK(s, lo, hi) == 0 <= lo /\ lo <= hi /\ hi <= Len(s)

\* s[lo:hi]
Slice(s, lo, hi) == SubSeq(s, lo + 1, hi)

HasPrefix(s, p) == Len(p) <= Len(s) /\ SubSeq(s, 1, Len(p)) = p

HasSuffix(s, p) ==
    Len(p) <= Len(s) /\ SubSeq(s, Len(s) - Len(p) + 1, Len(s)) = p

IsPrefixOf(p, s) == HasPrefix(s, p)

\* the offsets at which sub occurs in s
Occurrences(s, sub) ==
    {k \in 0..(Len(s) - Len(sub)) : SubSeq(s, k + 1, k + Len(sub)) = sub}

Min(S) == CHOOSE x \in S : \A y \in S : x <= y
Max(S) == CHOOSE x \in S : \A y \in S : x >= y

\* strings.Index
Index(s, sub) ==
    LET occ == Occurrences(s, sub) IN IF occ = {} THEN -1 ELSE Min(occ)

\* strings.LastIndex
LastIndex(s, sub) ==
    LET occ == Occurrences(s, sub) IN IF occ = {} THEN -1 ELSE Max(occ)

\* strings.TrimSpace
TrimSpace(s) ==
    LET keep == {k \in 1..Len(s) : ~IsSpace(s[k])}
    IN  IF keep = {} THEN <<>> ELSE SubSeq(s, Min(keep), Max(keep))

\* strings.Split(s, "\n")
RECURSIVE Split(_)
Split(s) ==
    LET k == Index(s, <<NL>>)
    IN  IF k = -1 THEN <<s>>
        ELSE <<Slice(s, 0, k)>> \o Split(Slice(s, k + 1, Len(s)))

\* strings.Join(ls, "\n")
RECURSIVE Join(_)
Join(ls) ==
    IF ls = <<>> THEN <<>>
    ELSE IF Len(ls) = 1 THEN ls[1]
    ELSE ls[1] \o <<NL>> \o Join(Tail(ls))

\* the concatenation of a sequence of strings
RECURSIVE Concat(_)
Concat(ss) == IF ss = <<>> THEN <<>> ELSE Head(ss) \o Concat(Tail(ss))

\* the sequences over S of length at most n
SeqsUpTo(S, n) == UNION {[1..k -> S] : k \in 0..n}

-----------------------------------------------------------------------------
(* Content blocks, tool names and parameter names.  The parser's package   *)
(* declares them under the same identifiers as the assistantmessage        *)
(* package does.                                                           *)

TextContentType == "text"
ToolUseContentType == "tool_use"

\* a nil *TextContent / *ToolUse
NilBlock ==
    [type |-> "nil", content |-> <<>>, partial |-> FALSE, name |-> "",
     params |-> <<>>]

NewTextContent(content, partial) ==
    [type |-> TextContentType, content |-> content, partial |-> partial,
     name |-> "", params |-> <<>>]

\* Params starts as the empty map
NewToolUse(name, partial) ==
    [type |-> ToolUseContentType, content |-> <<>>, partial |-> partial,
     name |-> name, params |-> <<>>]

WriteToFileToolName == "write_to_file"
ReadFileToolName == "read_file"
ContentParam == "content"
PathParam == "path"

AllToolUseNames ==
    <<
      "execute_command", "read_file", "write_to_file", "replace_in_file",
      "search_files", "list_files", "list_code_definition_names",
      "browser_action", "use_mcp_tool", "access_mcp_resource",
      "ask_followup_question", "plan_mode_response", "attempt_completion"
    >>

AllToolParamNames ==
    <<
      "command", "requires_approval", "path", "content", "diff", "regex",
      "file_pattern", "recursive", "action", "url", "coordinate", "text",
      "server_name", "tool_name", "arguments", "uri", "question", "response",
      "result"
    >>

\* the characters of each name
Spelling ==
    [
     execute_command |->
        <<"e", "x", "e", "c", "u", "t", "e", "_", "c", "o", "m", "m", "a", "n", "d">>,
     read_file |->
        <<"r", "e", "a", "d", "_", "f", "i", "l", "e">>,
     write_to_file |->
        <<"w", "r", "i", "t", "e", "_", "t", "o", "_", "f", "i", "l", "e">>,
     replace_in_file |->
        <<"r", "e", "p", "l", "a", "c", "e", "_", "i", "n", "_", "f", "i", "l", "e">>,
     search_files |->
        <<"s", "e", "a", "r", "c", "h", "_", "f", "i", "l", "e", "s">>,
     list_files |->
        <<"l", "i", "s", "t", "_", "f", "i", "l", "e", "s">>,
     list_code_definition_names |->
        <<"l", "i", "s", "t", "_", "c", "o", "d", "e", "_", "d", "e", "f", "i", "n", "i", "t", "i", "o", "n", "_", "n", "a", "m", "e", "s">>,
     browser_action |->
        <<"b", "r", "o", "w", "s", "e", "r", "_", "a", "c", "t", "i", "o", "n">>,
     use_mcp_tool |->
        <<"u", "s", "e", "_", "m", "c", "p", "_", "t", "o", "o", "l">>,
     access_mcp_resource |->
        <<"a", "c", "c", "e", "s", "s", "_", "m", "c", "p", "_", "r", "e", "s", "o", "u", "r", "c", "e">>,
     ask_followup_question |->
        <<"a", "s", "k", "_", "f", "o", "l", "l", "o", "w", "u", "p", "_", "q", "u", "e", "s", "t", "i", "o", "n">>,
     plan_mode_response |->
        <<"p", "l", "a", "n", "_", "m", "o", "d", "e", "_", "r", "e", "s", "p", "o", "n", "s", "e">>,
     attempt_completion |->
        <<"a", "t", "t", "e", "m", "p", "t", "_", "c", "o", "m", "p", "l", "e", "t", "i", "o", "n">>,
     command |->
        <<"c", "o", "m", "m", "a", "n", "d">>,
     requires_approval |->
        <<"r", "e", "q", "u", "i", "r", "e", "s", "_", "a", "p", "p", "r", "o", "v", "a", "l">>,
     path |->
        <<"p", "a", "t", "h">>,
     content |->
        <<"c", "o", "n", "t", "e", "n", "t">>,
     diff |->
        <<"d", "i", "f", "f">>,
     regex |->
        <<"r", "e", "g", "e", "x">>,
     file_pattern |->
        <<"f", "i", "l", "e", "_", "p", "a", "t", "t", "e", "r", "n">>,
     recursive |->
        <<"r", "e", "c", "u", "r", "s", "i", "v", "e">>,
     action |->
        <<"a", "c", "t", "i", "o", "n">>,
     url |->
        <<"u", "r", "l">>,
     coordinate |->
        <<"c", "o", "o", "r", "d", "i", "n", "a", "t", "e">>,
     text |->
        <<"t", "e", "x", "t">>,
     server_name |->
        <<"s", "e", "r", "v", "e", "r", "_", "n", "a", "m", "e">>,
     tool_name |->
        <<"t", "o", "o", "l", "_", "n", "a", "m", "e">>,
     arguments |->
        <<"a", "r", "g", "u", "m", "e", "n", "t", "s">>,
     uri |->
        <<"u", "r", "i">>,
     question |->
        <<"q", "u", "e", "s", "t", "i", "o", "n">>,
     response |->
        <<"r", "e", "s", "p", "o", "n", "s", "e">>,
     result |->
        <<"r", "e", "s", "u", "l", "t">>
    ]

\* fmt.Sprintf("<%s>", name) and fmt.Sprintf("</%s>", name)
OpeningTag(name) == <<"<">> \o Spelling[name] \o <<">">>
ClosingTag(name) == <<"<", "/">> \o Spelling[name] \o <<">">>

\* no fallback matcher is called directly
MatcherIdle ==
    /\ callSearchContent = <<>>
    /\ callStartIndex = 0
    /\ matcher = "none"
    /\ retStartIndex = 0
    /\ retEndIndex = 0
    /\ retErr = FALSE

\* no call of ParseDiff is in progress
SplitIdle ==
    /\ submatches = <<>>
    /\ matchNum = 1
    /\ diffBlocks = <<>>
    /\ parseDiffStatus = ""

\* c.ignoreInstance: nil, or the compiled patterns
NilInstance == [nil |-> TRUE, patterns |-> <<>>]

\* time.Time{}, the zero time
ZeroTime == 0

\* no call of the controller was made and no watcher exists
IgnoreIdle ==
    /\ fileExists = FALSE
    /\ fileContent = <<>>
    /\ fileModTime = ZeroTime
    /\ golineIgnoreContent = <<>>
    /\ ignoreInstance = NilInstance
    /\ asked = "none"
    /\ accessPath = <<>>
    /\ accessRet = TRUE
    /\ commandLine = <<>>
    /\ commandRet = <<>>
    /\ lastModTime = ZeroTime
    /\ watchPc = "none"
    /\ stopChan = "open"
    /\ tickerC = 0
    /\ change = "none"
    /\ replaced = NilInstance

\* no call of CreateMessage was made
ProviderIdle ==
    /\ goPc = "none"
    /\ pendingEvents = 0
    /\ returnAfter = FALSE
    /\ eventCh = "none"
    /\ upstream = "none"
    /\ ctx = "live"
    /\ consumer = "none"
    /\ linesLeft = 0
    /\ received = 0

RestIdle == SplitIdle /\ IgnoreIdle /\ ProviderIdle

\* the state of the parser before a call
ParserIdle ==
    /\ contentBlocks = <<>>
    /\ currentTextContent = NilBlock
    /\ currentTextContentStartIndex = 0
    /\ currentToolUse = NilBlock
    /\ currentToolUseStartIndex = 0
    /\ currentParamName = ""
    /\ currentParamValueStartIndex = 0
    /\ accumulator = <<>>
    /\ parsed = <<>>
    /\ aborted = FALSE
    /\ chunk = <<>>
    /\ phase = "none"
    /\ piecesLeft = 0

-----------------------------------------------------------------------------
(* diff.go: the markers                                                    *)

SearchMarker ==
    <<"<", "<", "<", "<", "<", "<", "<", " ", "S", "E", "A", "R", "C", "H">>
DividerMarker == <<"=", "=", "=", "=", "=", "=", "=">>
ReplaceMarker ==
    <<">", ">", ">", ">", ">", ">", ">", " ", "R", "E", "P", "L", "A", "C", "E">>


-----------------------------------------------------------------------------
(* diff.go: the fallback matchers.  A matcher returns                       *)
(* [start |-> matchStartIndex, end |-> matchEndIndex, err |-> BOOLEAN].    *)

NoMatch == [start |-> 0, end |-> 0, err |-> TRUE]

\* "Trim trailing empty line if exists"
TrimTrailingEmptyLine(ls) ==
    IF Len(ls) > 0 /\ ls[Len(ls)] = <<>> THEN SubSeq(ls, 1, Len(ls) - 1)
    ELSE ls

\* a fallback that scans from the first line of the file, whatever startIndex
StartLineNumFromTop(originalLines, startIndex, currentIndex, startLineNum) == 0

\* "Find the line number where startIndex falls": the loop
\*   for currentIndex < startIndex && startLineNum < len(originalLines)
RECURSIVE StartLineNum(_, _, _, _)
StartLineNum(originalLines, startIndex, currentIndex, startLineNum) ==
    IF currentIndex < startIndex /\ startLineNum < Len(originalLines)
    THEN StartLineNum(originalLines, startIndex,
                      currentIndex + Len(originalLines[startLineNum + 1]) + 1,
                      startLineNum + 1)
    ELSE startLineNum

\* the sum of len(ls[k]) over the lines, their line breaks not counted
RECURSIVE LineBytesNoBreak(_, _, _)
LineBytesNoBreak(ls, from, to) ==
    IF from >= to THEN 0
    ELSE Len(ls[from + 1]) + LineBytesNoBreak(ls, from + 1, to)

\* the sum of len(ls[k]) + 1 over the 0-based line numbers from..(to - 1)
RECURSIVE LineBytes(_, _, _)
LineBytes(ls, from, to) ==
    IF from >= to THEN 0
    ELSE Len(ls[from + 1]) + 1 + LineBytes(ls, from + 1, to)

\* the character positions of the lines i..(i + n - 1) of originalLines
MatchAtLine(originalLines, i, n) ==
    LET matchStartIndex == LineBytes(originalLines, 0, i)
    IN  [start |-> matchStartIndex,
         end   |-> matchStartIndex + LineBytes(originalLines, i, i + n),
         err   |-> FALSE]

LineTrimmedFallbackMatch(original, searchContent, startIndex) ==
    LET originalLines == Split(original)
        searchLines   == TrimTrailingEmptyLine(Split(searchContent))
        startLineNum  == StartLineNum(originalLines, startIndex, 0, 0)
        found == {i \in startLineNum..(Len(originalLines) - Len(searchLines)) :
                    \A j \in 0..(Len(searchLines) - 1) :
                        TrimSpace(originalLines[i + j + 1])
                            = TrimSpace(searchLines[j + 1])}
    IN  IF found = {} THEN NoMatch
        ELSE MatchAtLine(originalLines, Min(found), Len(searchLines))

\* a block-anchor fallback that compares the first line only
BlockAnchorFirstLineOnly(original, searchContent, startIndex) ==
    LET originalLines == Split(original)
        splitLines    == Split(searchContent)
        searchLines   == TrimTrailingEmptyLine(splitLines)
        searchBlockSize == Len(searchLines)
        startLineNum  == StartLineNum(originalLines, startIndex, 0, 0)
        found == {i \in startLineNum..(Len(originalLines) - searchBlockSize) :
                    TrimSpace(originalLines[i + 1])
                        = TrimSpace(searchLines[1])}
    IN  IF Len(splitLines) < 3 THEN NoMatch
        ELSE IF found = {} THEN NoMatch
        ELSE MatchAtLine(originalLines, Min(found), searchBlockSize)

BlockAnchorFallbackMatch(original, searchContent, startIndex) ==
    LET originalLines == Split(original)
        splitLines    == Split(searchContent)
        searchLines   == TrimTrailingEmptyLine(splitLines)
        searchBlockSize == Len(searchLines)
        startLineNum  == StartLineNum(originalLines, startIndex, 0, 0)
        found == {i \in startLineNum..(Len(originalLines) - searchBlockSize) :
                    /\ TrimSpace(originalLines[i + 1])
                           = TrimSpace(searchLines[1])
                    /\ TrimSpace(originalLines[i + searchBlockSize])
                           = TrimSpace(searchLines[searchBlockSize])}
    IN  \* "Only use this approach for blocks of 3+ lines": tested on the
        \* split lines, before the trailing empty line is trimmed
        IF Len(splitLines) < 3 THEN NoMatch
        ELSE IF found = {} THEN NoMatch
        ELSE MatchAtLine(originalLines, Min(found), searchBlockSize)

\* strings.Index(originalContent[lastProcessedIndex:], currentSearchContent),
\* already shifted by lastProcessedIndex; -1 when there is none
ExactMatchIndex(original, searchContent, from) ==
    LET exactIndex == Index(Slice(original, from, Len(original)), searchContent)
    IN  IF exactIndex = -1 THEN -1 ELSE from + exactIndex

\* the strategies in another order: line-trimmed, then exact, then
\* block-anchor
FindMatchTrimmedFirst(original, searchContent, from) ==
    LET exact == ExactMatchIndex(original, searchContent, from)
        lt    == LineTrimmedFallbackMatch(original, searchContent, from)
        ba    == BlockAnchorFallbackMatch(original, searchContent, from)
    IN  IF ~lt.err THEN [start |-> lt.start, end |-> lt.end,
                         err |-> FALSE, by |-> "trimmed"]
        ELSE IF exact # -1
        THEN [start |-> exact, end |-> exact + Len(searchContent),
              err |-> FALSE, by |-> "exact"]
        ELSE IF ~ba.err THEN [start |-> ba.start, end |-> ba.end,
                              err |-> FALSE, by |-> "anchor"]
        ELSE [start |-> 0, end |-> 0, err |-> TRUE, by |-> "none"]

\* lines 178-199: exact, then line-trimmed, then block-anchor
FindMatch(original, searchContent, from) ==
    LET exact == ExactMatchIndex(original, searchContent, from)
        lt    == LineTrimmedFallbackMatch(original, searchContent, from)
        ba    == BlockAnchorFallbackMatch(original, searchContent, from)
    IN  IF exact # -1
        THEN [start |-> exact, end |-> exact + Len(searchContent),
              err |-> FALSE, by |-> "exact"]
        ELSE IF ~lt.err THEN [start |-> lt.start, end |-> lt.end,
                              err |-> FALSE, by |-> "trimmed"]
        ELSE IF ~ba.err THEN [start |-> ba.start, end |-> ba.end,
                              err |-> FALSE, by |-> "anchor"]
        ELSE [start |-> 0, end |-> 0, err |-> TRUE, by |-> "none"]

\* an empty search block that always matches the empty range at offset 0
EmptySearchMatchAtStart(original) ==
    [start |-> 0, end |-> 0, err |-> FALSE, by |-> "empty"]

\* lines 166-176: the empty search block
EmptySearchMatch(original) ==
    IF Len(original) = 0
    THEN [start |-> 0, end |-> 0, err |-> FALSE, by |-> "empty"]
    ELSE [start |-> 0, end |-> Len(original), err |-> FALSE, by |-> "empty"]

-----------------------------------------------------------------------------
(* diff.go: ConstructNewFileContent.  Its locals are gathered in a record  *)
(* so that the loop body is one operator per kind of line; st.status is    *)
(* "run" while the call is running, "error" once it has returned an error  *)
(* and "panic" once a slice expression was out of range.                   *)

\* lines 131-140
InitLocals ==
    [result |-> <<>>, lastProcessedIndex |-> 0,
     currentSearchContent |-> <<>>, currentReplaceContent |-> <<>>,
     inSearch |-> FALSE, inReplace |-> FALSE,
     searchMatchIndex |-> -1, searchEndIndex |-> -1,
     status |-> "run", matches |-> <<>>]

\* lines 144-152: "If the last line looks like a partial marker but isn't
\* recognized, remove it because it might be incomplete."
LooksLikePartialMarker(lastLine) ==
    /\ \/ HasPrefix(lastLine, <<"<">>)
       \/ HasPrefix(lastLine, <<"=">>)
       \/ HasPrefix(lastLine, <<">">>)
    /\ lastLine # SearchMarker
    /\ lastLine # DividerMarker
    /\ lastLine # ReplaceMarker

DropPartialLastLine(ls) ==
    IF Len(ls) > 0 /\ LooksLikePartialMarker(ls[Len(ls)])
    THEN SubSeq(ls, 1, Len(ls) - 1)
    ELSE ls

\* lines 155-160
OnSearchMarker(st) ==
    [st EXCEPT !.inSearch = TRUE,
               !.currentSearchContent = <<>>,
               !.currentReplaceContent = <<>>]

\* lines 166-200: the match of the current search content, or the outcome
\* that ends the call
DividerMatch(st, original) ==
    IF st.currentSearchContent = <<>> THEN EmptySearchMatch(original)
    ELSE IF ~SliceOK(original, st.lastProcessedIndex, Len(original))
    THEN [start |-> 0, end |-> 0, err |-> TRUE, by |-> "panic"]
    ELSE FindMatch(original, st.currentSearchContent, st.lastProcessedIndex)

\* "result =" written for "result +=" at line 203
OnDividerOverwrites(st, original) ==
    LET m == DividerMatch(st, original)
        at == [st EXCEPT !.inSearch = FALSE, !.inReplace = TRUE]
    IN  IF m.by = "panic" THEN [at EXCEPT !.status = "panic"]
        ELSE IF m.err THEN [at EXCEPT !.status = "error"]
        ELSE IF ~SliceOK(original, st.lastProcessedIndex, m.start)
        THEN [at EXCEPT !.status = "panic"]
        ELSE [at EXCEPT
                !.searchMatchIndex = m.start,
                !.searchEndIndex = m.end,
                !.result = Slice(original, st.lastProcessedIndex, m.start),
                !.matches = Append(st.matches,
                    [start |-> m.start, end |-> m.end, by |-> m.by,
                     from |-> st.lastProcessedIndex])]

\* lines 162-205
OnDivider(st, original) ==
    LET m == DividerMatch(st, original)
        at == [st EXCEPT !.inSearch = FALSE, !.inReplace = TRUE]
    IN  IF m.by = "panic" THEN [at EXCEPT !.status = "panic"]
        ELSE IF m.err THEN [at EXCEPT !.status = "error"]
        ELSE IF ~SliceOK(original, st.lastProcessedIndex, m.start)
        THEN [at EXCEPT !.status = "panic",
                        !.searchMatchIndex = m.start,
                        !.searchEndIndex = m.end]
        ELSE [at EXCEPT
                !.searchMatchIndex = m.start,
                !.searchEndIndex = m.end,
                !.result = st.result
                    \o Slice(original, st.lastProcessedIndex, m.start),
                !.matches = Append(st.matches,
                    [start |-> m.start, end |-> m.end, by |-> m.by,
                     from |-> st.lastProcessedIndex])]

\* lines 207-221
OnReplaceMarker(st) ==
    [st EXCEPT !.lastProcessedIndex = st.searchEndIndex,
               !.inSearch = FALSE,
               !.inReplace = FALSE,
               !.currentSearchContent = <<>>,
               !.currentReplaceContent = <<>>,
               !.searchMatchIndex = -1,
               !.searchEndIndex = -1]

\* lines 223-232
OnContentLine(st, line) ==
    IF st.inSearch
    THEN [st EXCEPT !.currentSearchContent = @ \o line \o <<NL>>]
    ELSE IF st.inReplace
    THEN [st EXCEPT !.currentReplaceContent = @ \o line \o <<NL>>,
                    !.result = IF st.searchMatchIndex # -1
                               THEN @ \o line \o <<NL>> ELSE @]
    ELSE st

\* lines 154-233: one iteration of "for _, line := range lines"
LoopBody(st, line, original) ==
    IF line = SearchMarker THEN OnSearchMarker(st)
    ELSE IF line = DividerMarker THEN OnDivider(st, original)
    ELSE IF line = ReplaceMarker THEN OnReplaceMarker(st)
    ELSE OnContentLine(st, line)

\* the loop over lines[from..], stopping at a return or a panic
RECURSIVE RunLoop(_, _, _, _)
RunLoop(st, ls, from, original) ==
    IF from > Len(ls) \/ st.status # "run" THEN st
    ELSE RunLoop(LoopBody(st, ls[from], original), ls, from + 1, original)

\* lines 235-240: the value returned once the loop has ended
\* [ret |-> the string, status |-> "ok" | "error" | "panic"]
Finish(st, original, final) ==
    IF st.status = "error" THEN [ret |-> <<>>, status |-> "error"]
    ELSE IF st.status = "panic" THEN [ret |-> <<>>, status |-> "panic"]
    ELSE IF final /\ st.lastProcessedIndex < Len(original)
    THEN IF ~SliceOK(original, st.lastProcessedIndex, Len(original))
         THEN [ret |-> <<>>, status |-> "panic"]
         ELSE [ret |-> st.result
                        \o Slice(original, st.lastProcessedIndex, Len(original)),
               status |-> "ok"]
    ELSE [ret |-> st.result, status |-> "ok"]

\* the whole call, as a function of its arguments
ConstructNewFileContent(diff, original, final) ==
    Finish(RunLoop(InitLocals, DropPartialLastLine(Split(diff)), 1, original),
           original, final)

-----------------------------------------------------------------------------
(* The inputs of ConstructNewFileContent                                   *)

MaxOrigLines   == 3    \* lines of the original content
MaxSearchLines == 3    \* lines of a search body
MaxDiffLines   == 10   \* lines of a diff made of complete blocks
MaxRawLines    == 4    \* lines of a diff made of arbitrary lines

\* the lines of an original content: they differ by indentation only, so
\* that a search line can match exactly, inside a line, or after trimming
OrigLines == {<<"a">>, <<" ", "a">>}

\* the lines of a search body: the lines of the original and a line that
\* occurs nowhere in it
SearchLines == {<<"a">>, <<" ", "a">>, <<"b">>}

\* the replace body of a block
ReplaceBodies == {<< <<"c">> >>}

\* original contents: up to MaxOrigLines lines, with or without a final
\* line break
Originals ==
    {<<>>} \cup
    {Join(ls) \o tail :
        ls \in SeqsUpTo(OrigLines, MaxOrigLines) \ {<<>>},
        tail \in {<<>>, <<NL>>}}

Blocks ==
    [search : SeqsUpTo(SearchLines, MaxSearchLines), replace : ReplaceBodies]

BlockLines(b) ==
    <<SearchMarker>> \o b.search \o <<DividerMarker>> \o b.replace
        \o <<ReplaceMarker>>

RECURSIVE BlocksLines(_)
BlocksLines(bs) ==
    IF bs = <<>> THEN <<>> ELSE BlockLines(Head(bs)) \o BlocksLines(Tail(bs))

\* the sequences of blocks whose lines number at most budget
RECURSIVE BlockSeqsWithin(_)
BlockSeqsWithin(budget) ==
    {<<>>} \cup
    UNION {{<<b>> \o rest :
                rest \in BlockSeqsWithin(budget - Len(BlockLines(b)))} :
           b \in {x \in Blocks : Len(BlockLines(x)) <= budget}}

\* the diffs made only of complete blocks
BlockSeqs == BlockSeqsWithin(MaxDiffLines)

BlockDiffs == {Join(BlocksLines(bs)) : bs \in BlockSeqs}

\* the diffs whose marker lines may be missing or out of order
RawLines == {SearchMarker, DividerMarker, ReplaceMarker, <<"a">>}

RawDiffs == {Join(ls) : ls \in SeqsUpTo(RawLines, MaxRawLines)}

RawOriginals == {<<>>, <<"a", NL>>, <<"a", NL, "a">>}

-----------------------------------------------------------------------------
(* ConstructNewFileContent as a state machine: one step per line           *)

Locals ==
    [result |-> result, lastProcessedIndex |-> lastProcessedIndex,
     currentSearchContent |-> currentSearchContent,
     currentReplaceContent |-> currentReplaceContent,
     inSearch |-> inSearch, inReplace |-> inReplace,
     searchMatchIndex |-> searchMatchIndex,
     searchEndIndex |-> searchEndIndex,
     status |-> status, matches |-> matches]

SetLocals(st) ==
    /\ result' = st.result
    /\ lastProcessedIndex' = st.lastProcessedIndex
    /\ currentSearchContent' = st.currentSearchContent
    /\ currentReplaceContent' = st.currentReplaceContent
    /\ inSearch' = st.inSearch
    /\ inReplace' = st.inReplace
    /\ searchMatchIndex' = st.searchMatchIndex
    /\ searchEndIndex' = st.searchEndIndex
    /\ status' = st.status
    /\ matches' = st.matches

\* the state at the entry of a call
DiffEntry ==
    /\ lines = <<>>
    /\ lineIdx = 1
    /\ result = InitLocals.result
    /\ lastProcessedIndex = InitLocals.lastProcessedIndex
    /\ currentSearchContent = InitLocals.currentSearchContent
    /\ currentReplaceContent = InitLocals.currentReplaceContent
    /\ inSearch = InitLocals.inSearch
    /\ inReplace = InitLocals.inReplace
    /\ searchMatchIndex = InitLocals.searchMatchIndex
    /\ searchEndIndex = InitLocals.searchEndIndex
    /\ status = InitLocals.status
    /\ matches = InitLocals.matches
    /\ ret = <<>>
    /\ pc = "split"
    /\ ParserIdle
    /\ MatcherIdle
    /\ RestIdle

InitDiff ==
    /\ diffContent \in BlockDiffs
    /\ originalContent \in Originals
    /\ isFinal \in BOOLEAN
    /\ DiffEntry

InitRaw ==
    /\ diffContent \in RawDiffs
    /\ originalContent \in RawOriginals
    /\ isFinal \in BOOLEAN
    /\ DiffEntry

\* lines 142-152
SplitLines ==
    /\ pc = "split"
    /\ lines' = DropPartialLastLine(Split(diffContent))
    /\ pc' = "loop"
    /\ UNCHANGED <<diffContent, originalContent, isFinal, lineIdx, result,
                   lastProcessedIndex, currentSearchContent,
                   currentReplaceContent, inSearch, inReplace,
                   searchMatchIndex, searchEndIndex, status, ret, matches>>
    /\ UNCHANGED outsideDiff

\* one iteration of the loop on the line lines[lineIdx]
LoopStep(st) ==
    /\ SetLocals(st)
    /\ lineIdx' = lineIdx + 1
    /\ UNCHANGED <<diffContent, originalContent, isFinal, lines, ret, pc>>
    /\ UNCHANGED outsideDiff

AtLine == pc = "loop" /\ status = "run" /\ lineIdx <= Len(lines)

SearchMarkerLine ==
    /\ AtLine
    /\ lines[lineIdx] = SearchMarker
    /\ LoopStep(OnSearchMarker(Locals))

DividerLine ==
    /\ AtLine
    /\ lines[lineIdx] = DividerMarker
    /\ LoopStep(OnDivider(Locals, originalContent))

ReplaceMarkerLine ==
    /\ AtLine
    /\ lines[lineIdx] = ReplaceMarker
    /\ LoopStep(OnReplaceMarker(Locals))

ContentLine ==
    /\ AtLine
    /\ lines[lineIdx] \notin {SearchMarker, DividerMarker, ReplaceMarker}
    /\ LoopStep(OnContentLine(Locals, lines[lineIdx]))

\* the call returns (or panics): after the last line, or at the failed line
Return ==
    /\ pc = "loop"
    /\ status # "run" \/ lineIdx > Len(lines)
    /\ LET r == Finish(Locals, originalContent, isFinal)
       IN  /\ ret' = r.ret
           /\ status' = r.status
    /\ pc' = "done"
    /\ UNCHANGED <<diffContent, originalContent, isFinal, lines, lineIdx,
                   result, lastProcessedIndex, currentSearchContent,
                   currentReplaceContent, inSearch, inReplace,
                   searchMatchIndex, searchEndIndex, matches>>
    /\ UNCHANGED outsideDiff

NextDiff ==
    \/ SplitLines
    \/ SearchMarkerLine
    \/ DividerLine
    \/ ReplaceMarkerLine
    \/ ContentLine
    \/ Return

SpecDiff == InitDiff /\ [][NextDiff]_vars

SpecRaw == InitRaw /\ [][NextDiff]_vars

-----------------------------------------------------------------------------
(* ParseAssistantMessage (parser.go).  The message is ASCII, so the byte   *)
(* offset i of a character is the number of characters before it.          *)

\* lines 10-17
InitParse ==
    [contentBlocks |-> <<>>,
     currentTextContent |-> NilBlock,
     currentTextContentStartIndex |-> 0,
     currentToolUse |-> NilBlock,
     currentToolUseStartIndex |-> 0,
     currentParamName |-> "",
     currentParamValueStartIndex |-> 0,
     accumulator |-> <<>>,
     aborted |-> FALSE]

\* the first name of names, in order, whose opening tag ends s ("" if none)
FirstOpened(names, s) ==
    LET hits == {k \in 1..Len(names) : HasSuffix(s, OpeningTag(names[k]))}
    IN  IF hits = {} THEN "" ELSE names[Min(hits)]

\* lines 23-36: inside a parameter value
OnParamChar(st) ==
    IF ~SliceOK(st.accumulator, st.currentParamValueStartIndex,
                Len(st.accumulator))
    THEN [st EXCEPT !.aborted = TRUE]
    ELSE
    LET currentParamValue ==
            Slice(st.accumulator, st.currentParamValueStartIndex,
                  Len(st.accumulator))
        paramClosingTag == ClosingTag(st.currentParamName)
    IN  IF HasSuffix(currentParamValue, paramClosingTag)
        THEN LET paramValue ==
                    Slice(currentParamValue, 0,
                          Len(currentParamValue) - Len(paramClosingTag))
             IN  [st EXCEPT
                    !.currentToolUse.params =
                        (st.currentParamName :> TrimSpace(paramValue)) @@ @,
                    !.currentParamName = ""]
        ELSE st

\* lines 51-59: a parameter opening tag ends the accumulator
OnParamOpening(st) ==
    LET paramName == FirstOpened(AllToolParamNames, st.accumulator)
    IN  IF paramName # ""
        THEN [st EXCEPT !.currentParamName = paramName,
                        !.currentParamValueStartIndex = Len(st.accumulator)]
        ELSE st

\* lines 61-71: the special case for write_to_file
OnContentClosing(st) ==
    IF /\ st.currentToolUse.name = WriteToFileToolName
       /\ HasSuffix(st.accumulator, ClosingTag(ContentParam))
    THEN LET toolContent ==
                Slice(st.accumulator, st.currentToolUseStartIndex,
                      Len(st.accumulator))
             contentStartTag == OpeningTag(ContentParam)
             contentEndTag == ClosingTag(ContentParam)
             contentStartIndex ==
                Index(toolContent, contentStartTag) + Len(contentStartTag)
             contentEndIndex == LastIndex(toolContent, contentEndTag)
         IN  IF /\ contentStartIndex # -1
                /\ contentEndIndex # -1
                /\ contentEndIndex > contentStartIndex
             THEN IF ~SliceOK(toolContent, contentStartIndex, contentEndIndex)
                  THEN [st EXCEPT !.aborted = TRUE]
                  ELSE [st EXCEPT
                          !.currentToolUse.params =
                            (ContentParam :>
                                TrimSpace(Slice(toolContent, contentStartIndex,
                                                contentEndIndex))) @@ @]
             ELSE st
    ELSE st

\* "contentBlocks =" of the closed tool alone, written for the append of
\* line 46
OnToolCharResetsBlocks(st) ==
    LET currentToolValue ==
            Slice(st.accumulator, st.currentToolUseStartIndex,
                  Len(st.accumulator))
        toolUseClosingTag == ClosingTag(st.currentToolUse.name)
    IN  IF HasSuffix(currentToolValue, toolUseClosingTag)
        THEN [st EXCEPT
                !.contentBlocks =
                    <<[st.currentToolUse EXCEPT !.partial = FALSE]>>,
                !.currentToolUse = NilBlock]
        ELSE OnContentClosing(OnParamOpening(st))

\* lines 40-76: inside a tool use, outside a parameter value
OnToolChar(st) ==
    IF ~SliceOK(st.accumulator, st.currentToolUseStartIndex,
                Len(st.accumulator))
    THEN [st EXCEPT !.aborted = TRUE]
    ELSE
    LET currentToolValue ==
            Slice(st.accumulator, st.currentToolUseStartIndex,
                  Len(st.accumulator))
        toolUseClosingTag == ClosingTag(st.currentToolUse.name)
    IN  IF HasSuffix(currentToolValue, toolUseClosingTag)
        THEN [st EXCEPT
                !.contentBlocks =
                    Append(@, [st.currentToolUse EXCEPT !.partial = FALSE]),
                !.currentToolUse = NilBlock]
        ELSE OnContentClosing(OnParamOpening(st))

\* a tool opening that appends the text block and leaves it open, without
\* lines 91 and 99
OnToolOpeningKeepsText(st, toolName) ==
    LET opened == [st EXCEPT
                     !.currentToolUse = NewToolUse(toolName, TRUE),
                     !.currentToolUseStartIndex = Len(st.accumulator)]
    IN  IF st.currentTextContent = NilBlock THEN opened
        ELSE [opened EXCEPT
                !.contentBlocks = Append(@, st.currentTextContent)]

\* lines 85-103: a tool opening tag ends the accumulator
OnToolOpening(st, toolName) ==
    LET toolUseOpeningTag == OpeningTag(toolName)
        opened == [st EXCEPT
                     !.currentToolUse = NewToolUse(toolName, TRUE),
                     !.currentToolUseStartIndex = Len(st.accumulator)]
        content == st.currentTextContent.content
        tagStart == Len(content) - Len(toolUseOpeningTag) + 1
    IN  IF st.currentTextContent = NilBlock THEN opened
        ELSE IF tagStart > 0 /\ ~SliceOK(content, 0, tagStart)
        THEN [opened EXCEPT !.aborted = TRUE]
        ELSE [opened EXCEPT
                !.contentBlocks =
                    Append(@, [st.currentTextContent EXCEPT
                                 !.partial = FALSE,
                                 !.content =
                                    IF tagStart > 0
                                    THEN TrimSpace(Slice(content, 0, tagStart))
                                    ELSE content]),
                !.currentTextContent = NilBlock]

\* lines 107-116: text, at the beginning or between tools
OnText(st, i) ==
    IF st.currentTextContent = NilBlock
    THEN IF ~SliceOK(st.accumulator, i, Len(st.accumulator))
         THEN [st EXCEPT !.aborted = TRUE]
         ELSE [st EXCEPT
                 !.currentTextContentStartIndex = i,
                 !.currentTextContent =
                    NewTextContent(Slice(st.accumulator, i,
                                         Len(st.accumulator)), TRUE)]
    ELSE IF ~SliceOK(st.accumulator, st.currentTextContentStartIndex,
                     Len(st.accumulator))
         THEN [st EXCEPT !.aborted = TRUE]
         ELSE [st EXCEPT
                 !.currentTextContent.content =
                    TrimSpace(Slice(st.accumulator,
                                    st.currentTextContentStartIndex,
                                    Len(st.accumulator)))]

\* lines 80-116: outside any tool use
OnTextChar(st, i) ==
    LET toolName == FirstOpened(AllToolUseNames, st.accumulator)
    IN  IF toolName # "" THEN OnToolOpening(st, toolName) ELSE OnText(st, i)

InParam(st) == st.currentToolUse # NilBlock /\ st.currentParamName # ""
InTool(st) == st.currentToolUse # NilBlock /\ st.currentParamName = ""
InText(st) == st.currentToolUse = NilBlock

\* lines 19-117: one iteration of the loop, on the character char at offset i
ScanChar(st, char) ==
    LET i == Len(st.accumulator)
        read == [st EXCEPT !.accumulator = @ \o <<char>>]
    IN  IF InParam(st) THEN OnParamChar(read)
        ELSE IF InTool(st) THEN OnToolChar(read)
        ELSE OnTextChar(read, i)

\* an end of input that returns the open tool without lines 121-124
FinalizeDropsOpenParam(st) ==
    LET withTool ==
            IF st.currentToolUse # NilBlock
            THEN Append(st.contentBlocks, st.currentToolUse)
            ELSE st.contentBlocks
    IN  IF st.currentTextContent # NilBlock
        THEN Append(withTool, st.currentTextContent)
        ELSE withTool

\* lines 119-134: what is returned when the message ends here
Finalize(st) ==
    LET withTool ==
            IF st.currentToolUse # NilBlock
            THEN Append(st.contentBlocks,
                    IF st.currentParamName # ""
                    THEN [st.currentToolUse EXCEPT
                            !.params =
                              (st.currentParamName :>
                                 TrimSpace(SubSeq(st.accumulator,
                                    st.currentParamValueStartIndex + 1,
                                    Len(st.accumulator)))) @@ @]
                    ELSE st.currentToolUse)
            ELSE st.contentBlocks
    IN  IF st.currentTextContent # NilBlock
        THEN Append(withTool, st.currentTextContent)
        ELSE withTool

RECURSIVE ScanFrom(_, _, _)
ScanFrom(st, message, k) ==
    IF k > Len(message) \/ st.aborted THEN st
    ELSE ScanFrom(ScanChar(st, message[k]), message, k + 1)

ParseAssistantMessage(assistantMessage) ==
    Finalize(ScanFrom(InitParse, assistantMessage, 1))

-----------------------------------------------------------------------------
(* The message a call scans.  It is laid out as: an optional lead (a       *)
(* letter, a blank, or a whole read_file block and a line break), then a   *)
(* write_to_file opening tag, a body of pieces, the write_to_file closing  *)
(* tag and a closing letter; it may stop after any character.              *)

MaxPieces == 4

Piece(text, next, cost) == [text |-> text, next |-> next, cost |-> cost]

LeadPieces ==
    { Piece(<<"a">>, "lead", 1),
      Piece(<<" ">>, "lead", 1),
      Piece(OpeningTag(ReadFileToolName) \o ClosingTag(ReadFileToolName)
                \o <<NL>>, "lead", 2) }

BodyPieces ==
    { Piece(OpeningTag(ContentParam), "body", 1),
      Piece(ClosingTag(ContentParam), "body", 1),
      Piece(OpeningTag(PathParam), "body", 1),
      Piece(ClosingTag(PathParam), "body", 1),
      Piece(<<" ", "a", " ">>, "body", 1) }

\* the pieces that may come next at each place of the layout
Pieces(at) ==
    CASE at = "start" ->
            LeadPieces \cup {Piece(OpeningTag(WriteToFileToolName), "body", 0)}
      [] at = "lead" -> {Piece(OpeningTag(WriteToFileToolName), "body", 0)}
      [] at = "body" ->
            BodyPieces \cup {Piece(ClosingTag(WriteToFileToolName), "tail", 0)}
      [] at = "tail" -> {Piece(<<"a">>, "end", 0)}
      [] OTHER -> {}

\* the next character of the message, with what remains of its piece
Arrivals ==
    IF chunk # <<>>
    THEN {[char |-> Head(chunk), chunk |-> Tail(chunk), phase |-> phase,
           piecesLeft |-> piecesLeft]}
    ELSE {[char |-> Head(q.text), chunk |-> Tail(q.text), phase |-> q.next,
           piecesLeft |-> piecesLeft - q.cost] :
             q \in {r \in Pieces(phase) : r.cost <= piecesLeft}}

-----------------------------------------------------------------------------
(* ParseAssistantMessage as a state machine: one step per character        *)

ParseLocals ==
    [contentBlocks |-> contentBlocks,
     currentTextContent |-> currentTextContent,
     currentTextContentStartIndex |-> currentTextContentStartIndex,
     currentToolUse |-> currentToolUse,
     currentToolUseStartIndex |-> currentToolUseStartIndex,
     currentParamName |-> currentParamName,
     currentParamValueStartIndex |-> currentParamValueStartIndex,
     accumulator |-> accumulator,
     aborted |-> aborted]

SetParseLocals(st) ==
    /\ contentBlocks' = st.contentBlocks
    /\ currentTextContent' = st.currentTextContent
    /\ currentTextContentStartIndex' = st.currentTextContentStartIndex
    /\ currentToolUse' = st.currentToolUse
    /\ currentToolUseStartIndex' = st.currentToolUseStartIndex
    /\ currentParamName' = st.currentParamName
    /\ currentParamValueStartIndex' = st.currentParamValueStartIndex
    /\ accumulator' = st.accumulator
    /\ aborted' = st.aborted

\* no call of ConstructNewFileContent is in progress
DiffIdle ==
    /\ diffContent = <<>>
    /\ originalContent = <<>>
    /\ isFinal = FALSE
    /\ lines = <<>>
    /\ lineIdx = 1
    /\ result = InitLocals.result
    /\ lastProcessedIndex = InitLocals.lastProcessedIndex
    /\ currentSearchContent = InitLocals.currentSearchContent
    /\ currentReplaceContent = InitLocals.currentReplaceContent
    /\ inSearch = InitLocals.inSearch
    /\ inReplace = InitLocals.inReplace
    /\ searchMatchIndex = InitLocals.searchMatchIndex
    /\ searchEndIndex = InitLocals.searchEndIndex
    /\ status = InitLocals.status
    /\ matches = InitLocals.matches
    /\ ret = <<>>

InitParser ==
    /\ DiffIdle
    /\ MatcherIdle
    /\ RestIdle
    /\ contentBlocks = InitParse.contentBlocks
    /\ currentTextContent = InitParse.currentTextContent
    /\ currentTextContentStartIndex = InitParse.currentTextContentStartIndex
    /\ currentToolUse = InitParse.currentToolUse
    /\ currentToolUseStartIndex = InitParse.currentToolUseStartIndex
    /\ currentParamName = InitParse.currentParamName
    /\ currentParamValueStartIndex = InitParse.currentParamValueStartIndex
    /\ accumulator = InitParse.accumulator
    /\ aborted = InitParse.aborted
    /\ parsed = <<>>
    /\ chunk = <<>>
    /\ phase = "start"
    /\ piecesLeft = MaxPieces
    /\ pc = "scan"

\* the loop reads the next character of the message
ReadChar ==
    /\ pc = "scan"
    /\ ~aborted
    /\ \E a \in Arrivals :
          /\ SetParseLocals(ScanChar(ParseLocals, a.char))
          /\ chunk' = a.chunk
          /\ phase' = a.phase
          /\ piecesLeft' = a.piecesLeft
    /\ UNCHANGED <<outsideParser, parsed, pc>>

\* lines 23-36
ParamChar == InParam(ParseLocals) /\ ReadChar

\* lines 40-76
ToolChar == InTool(ParseLocals) /\ ReadChar

\* lines 80-116
TextChar == InText(ParseLocals) /\ ReadChar

\* lines 119-134: the message ends here and the blocks are returned
EndOfInput ==
    /\ pc = "scan"
    /\ ~aborted
    /\ parsed' = Finalize(ParseLocals)
    /\ pc' = "returned"
    /\ UNCHANGED <<outsideParser, streamVars, contentBlocks, currentTextContent,
                   currentTextContentStartIndex, currentToolUse,
                   currentToolUseStartIndex, currentParamName,
                   currentParamValueStartIndex, accumulator, aborted>>

NextParser ==
    \/ ParamChar
    \/ ToolChar
    \/ TextChar
    \/ EndOfInput

SpecParser == InitParser /\ [][NextParser]_vars

-----------------------------------------------------------------------------
(* What the properties speak of, stated from the inputs of a call          *)

Done == pc = "done"

\* the blocks a diff made only of complete blocks consists of
IsBlockDiff(diff) == diff \in BlockDiffs
BlocksOf(diff) == CHOOSE bs \in BlockSeqs : Join(BlocksLines(bs)) = diff

\* the text of a body: each line followed by a line break
RECURSIVE BodyText(_)
BodyText(ls) ==
    IF ls = <<>> THEN <<>> ELSE Head(ls) \o <<NL>> \o BodyText(Tail(ls))

\* the range a block is matched to when the previous match ended at from:
\* a non-empty search body by the first strategy that succeeds, an empty
\* one to the whole remaining content
BlockRange(original, b, from) ==
    IF b.search = <<>>
    THEN [start |-> from, end |-> Len(original), err |-> FALSE, by |-> "empty"]
    ELSE FindMatch(original, BodyText(b.search), from)

\* every block of bs matches, one after the other, from offset from on
RECURSIVE AllMatch(_, _, _)
AllMatch(original, bs, from) ==
    \/ bs = <<>>
    \/ LET m == BlockRange(original, Head(bs), from)
       IN  ~m.err /\ AllMatch(original, Tail(bs), m.end)

\* some block of bs has a non-empty search body that no strategy matches,
\* the blocks before it matching one after the other
RECURSIVE SomeUnmatched(_, _, _)
SomeUnmatched(original, bs, from) ==
    /\ bs # <<>>
    /\ LET m == BlockRange(original, Head(bs), from)
       IN  IF m.err THEN TRUE ELSE SomeUnmatched(original, Tail(bs), m.end)

\* the original content with each matched range replaced by the replace
\* lines of its block, everything else kept
RECURSIVE Spliced(_, _, _)
Spliced(original, bs, from) ==
    IF bs = <<>> THEN Slice(original, from, Len(original))
    ELSE LET m == BlockRange(original, Head(bs), from)
         IN  Slice(original, from, m.start) \o BodyText(Head(bs).replace)
                 \o Spliced(original, Tail(bs), m.end)

\* the prefixes of diff that end where a line of diff ends: at its end or
\* just before one of its line breaks
LineEnds(diff) ==
    {k \in 0..Len(diff) : k = Len(diff) \/ diff[k + 1] = NL}

-----------------------------------------------------------------------------
(* The properties of ConstructNewFileContent                               *)

\* C1: on a final call with a diff made only of complete blocks whose
\* non-empty search bodies all match, the call returns the original content
\* with each matched range replaced by the replace lines of its block (an
\* empty search body standing for the whole remaining content) and every
\* other byte kept in order.
C1_FinalResultIsSplice ==
    (/\ Done
     /\ isFinal
     /\ IsBlockDiff(diffContent)
     /\ AllMatch(originalContent, BlocksOf(diffContent), 0))
    => /\ status = "ok"
       /\ ret = Spliced(originalContent, BlocksOf(diffContent), 0)

\* C1, for the diffs in which only the first block may have an empty search
\* body: the statement of C1 holds of these.
C1_HoldsWithoutLaterEmptySearch ==
    (/\ Done
     /\ isFinal
     /\ IsBlockDiff(diffContent)
     /\ \A k \in 2..Len(BlocksOf(diffContent)) :
            BlocksOf(diffContent)[k].search # <<>>
     /\ AllMatch(originalContent, BlocksOf(diffContent), 0))
    => /\ status = "ok"
       /\ ret = Spliced(originalContent, BlocksOf(diffContent), 0)

\* C2: when some block's non-empty search body is matched by none of the
\* three strategies, the call returns an error and the empty string,
\* whatever isFinal is and whatever the earlier blocks matched.
C2_UnmatchedFailsClosed ==
    (/\ Done
     /\ IsBlockDiff(diffContent)
     /\ SomeUnmatched(originalContent, BlocksOf(diffContent), 0))
    => /\ status = "error"
       /\ ret = <<>>

\* C2, when every earlier match ends within the original content: the
\* statement of C2 holds of these calls.
C2_HoldsWhenMatchesEndInside ==
    (/\ Done
     /\ IsBlockDiff(diffContent)
     /\ SomeUnmatched(originalContent, BlocksOf(diffContent), 0)
     /\ \A k \in 1..Len(matches) : matches[k].end <= Len(originalContent))
    => /\ status = "error"
       /\ ret = <<>>

\* C6: in a call on a diff made of blocks, every match of a non-empty
\* search body, by whichever strategy, starts at or after the end of the
\* previous block's match; and each strategy, asked to match from any
\* offset, answers with a match that starts at or after that offset.
C6_MatchesAdvance ==
    /\ \A k \in 1..Len(matches) :
          matches[k].by # "empty" =>
              /\ matches[k].start >= matches[k].from
              /\ k > 1 => matches[k].start >= matches[k - 1].end
    /\ pc = "split" =>
          LET bs == BlocksOf(diffContent)
          IN  \A k \in 1..Len(bs) :
                 LET search == BodyText(bs[k].search)
                 IN  \A from \in 0..(Len(originalContent) + 1) :
                        LET lt == LineTrimmedFallbackMatch(originalContent,
                                                           search, from)
                            ba == BlockAnchorFallbackMatch(originalContent,
                                                           search, from)
                        IN  /\ ~lt.err => lt.start >= from
                            /\ ~ba.err => ba.start >= from

\* C6: the first of two blocks was matched exactly and the second by the
\* line-trimmed fallback, at a later occurrence of the same text.
C6_Witness ==
    /\ Done
    /\ Len(matches) = 2
    /\ matches[1].by = "exact"
    /\ matches[2].by = "trimmed"
    /\ matches[1].end <= Len(originalContent)
    /\ TrimSpace(Slice(originalContent, matches[1].start, matches[1].end))
         = TrimSpace(Slice(originalContent, matches[2].start,
                           IF matches[2].end > Len(originalContent)
                           THEN Len(originalContent) ELSE matches[2].end))
    /\ matches[2].start >= matches[1].end

\* C9: whatever the diff text, marker lines missing or out of order
\* included, the call returns a string or an error: it never aborts with an
\* out-of-range access.
C9_NeverAborts == status # "panic"

\* C10 as stated: with isFinal = false, the result for any prefix D1 of the
\* diff text D2 is a prefix of the result for D2, when both calls succeed.
C10_PrefixMonotone ==
    (Done /\ ~isFinal /\ status = "ok") =>
        \A k \in 0..Len(diffContent) :
            LET r1 == ConstructNewFileContent(SubSeq(diffContent, 1, k),
                                              originalContent, FALSE)
            IN  r1.status = "ok" => IsPrefixOf(r1.ret, ret)

\* C10 as amended: with isFinal = false, for two prefixes D1, D2 of a diff
\* text, D1 a prefix of D2 and each ending where a line of the text ends,
\* the result for D1 is a prefix of the result for D2 when both calls
\* succeed.
C10_LinePrefixMonotone ==
    (Done /\ ~isFinal) =>
        \A k2 \in LineEnds(diffContent) :
            \A k1 \in {k \in LineEnds(diffContent) : k <= k2} :
                LET r1 == ConstructNewFileContent(SubSeq(diffContent, 1, k1),
                                                  originalContent, FALSE)
                    r2 == ConstructNewFileContent(SubSeq(diffContent, 1, k2),
                                                  originalContent, FALSE)
                IN  (r1.status = "ok" /\ r2.status = "ok")
                        => IsPrefixOf(r1.ret, r2.ret)

\* C10: a call with two matched blocks returned a result that strictly
\* extends the non-empty result of the call on the first block alone.
C10_Witness ==
    /\ Done
    /\ ~isFinal
    /\ status = "ok"
    /\ Len(matches) = 2
    /\ \E k \in LineEnds(diffContent) :
          LET r1 == ConstructNewFileContent(SubSeq(diffContent, 1, k),
                                            originalContent, FALSE)
          IN  /\ r1.status = "ok"
              /\ r1.ret # <<>>
              /\ r1.ret # ret
              /\ IsPrefixOf(r1.ret, ret)

-----------------------------------------------------------------------------
(* What the properties speak of, stated from the text of the message       *)

Returned == pc = "returned"

\* the message has a write_to_file opening tag
HasWriteToFile(message) ==
    Index(message, OpeningTag(WriteToFileToolName)) # -1

\* the text after the first write_to_file opening tag of the message
AfterOpening(message) ==
    Slice(message,
          Index(message, OpeningTag(WriteToFileToolName))
            + Len(OpeningTag(WriteToFileToolName)),
          Len(message))

\* the message has a write_to_file opening tag and, after it, the
\* write_to_file closing tag
HasClosedWriteToFile(message) ==
    /\ HasWriteToFile(message)
    /\ Index(AfterOpening(message), ClosingTag(WriteToFileToolName)) # -1

\* the text between the first write_to_file opening tag and the last
\* write_to_file closing tag
WriteToFileBody(message) ==
    Slice(AfterOpening(message), 0,
          LastIndex(AfterOpening(message), ClosingTag(WriteToFileToolName)))

\* the text between the first <content> and the last </content> of body
OuterContent(body) ==
    Slice(body,
          Index(body, OpeningTag(ContentParam)) + Len(OpeningTag(ContentParam)),
          LastIndex(body, ClosingTag(ContentParam)))

\* the write_to_file blocks among blocks
WriteToFileBlocks(blocks) ==
    {k \in 1..Len(blocks) :
        blocks[k].type = ToolUseContentType
        /\ blocks[k].name = WriteToFileToolName}

-----------------------------------------------------------------------------
(* The properties of ParseAssistantMessage                                 *)

\* C3: the returned blocks have at most one block with partial = true, and
\* it is the last one; at no point of the scan are a text block and a tool
\* block both open.
C3_OnePartialLast ==
    /\ ~(currentTextContent # NilBlock /\ currentToolUse # NilBlock)
    /\ Returned =>
          \A k \in 1..Len(parsed) : parsed[k].partial => k = Len(parsed)

\* C3: a call returned a completed text block, a completed tool block and a
\* last, partial block.
C3_Witness ==
    /\ Returned
    /\ Len(parsed) = 3
    /\ parsed[1].type = TextContentType
    /\ parsed[2].type = ToolUseContentType
    /\ parsed[3].partial

\* C4: when the text read so far grows by one character, every block of
\* the parse of the shorter text, its final partial block excepted, is at
\* the same index and unchanged in the parse of the longer text (and so,
\* character by character, for every continuation).
C4_CompletedBlocksStay ==
    [][pc' = "scan" =>
          LET before == Finalize(ParseLocals)
              after == Finalize(ParseLocals)'
          IN  \A k \in 1..Len(before) :
                 (k < Len(before) \/ ~before[k].partial) =>
                     /\ k <= Len(after)
                     /\ after[k] = before[k]]_vars

\* C4: two blocks are completed and the scan goes on in a third one.
C4_Witness ==
    /\ pc = "scan"
    /\ Len(contentBlocks) = 2
    /\ currentTextContent # NilBlock
    /\ contentBlocks[2].params # <<>>

\* C5: the call returns blocks for every message, without abort; when the
\* write_to_file opening tag is not followed by its closing tag, or a
\* parameter is not closed, the last block is that tool block, partial,
\* with the parameters closed so far and, for the unclosed parameter, the
\* trimmed text that follows its opening tag.
C5_DegradesToPartialTool ==
    /\ ~aborted
    /\ Returned =>
          LET last == parsed[Len(parsed)]
              rest == Slice(accumulator, currentParamValueStartIndex,
                            Len(accumulator))
          IN  /\ (HasWriteToFile(accumulator)
                    /\ ~HasClosedWriteToFile(accumulator)) =>
                    /\ last.type = ToolUseContentType
                    /\ last.name = WriteToFileToolName
                    /\ last.partial
              /\ currentToolUse # NilBlock =>
                    /\ last.type = ToolUseContentType
                    /\ last.name = currentToolUse.name
                    /\ last.partial
                    /\ currentParamName = "" =>
                          last.params = currentToolUse.params
                    /\ currentParamName # "" =>
                          /\ DOMAIN last.params =
                                DOMAIN currentToolUse.params
                                    \cup {currentParamName}
                          /\ last.params[currentParamName] = TrimSpace(rest)
                          /\ \A q \in DOMAIN currentToolUse.params
                                        \ {currentParamName} :
                                last.params[q] = currentToolUse.params[q]

\* C5: a call returned a partial write_to_file block with a closed path
\* parameter and an unclosed content parameter whose text was trimmed.
C5_Witness ==
    /\ Returned
    /\ currentParamName = ContentParam
    /\ PathParam \in DOMAIN currentToolUse.params
    /\ parsed[Len(parsed)].partial
    /\ parsed[Len(parsed)].params[ContentParam] # <<>>
    /\ parsed[Len(parsed)].params[ContentParam]
         # Slice(accumulator, currentParamValueStartIndex, Len(accumulator))

\* C7: for a write_to_file block closed by its closing tag, and returned
\* as completed, whose text has a <content> opening tag and more than one
\* </content> closing tag, the content parameter is (up to the trimming of
\* its ends) the text between the first <content> and the last </content>.
C7_ContentSpansFirstToLast ==
    (/\ Returned
     /\ HasClosedWriteToFile(accumulator)
     /\ Index(WriteToFileBody(accumulator), OpeningTag(ContentParam)) # -1
     /\ Cardinality(Occurrences(WriteToFileBody(accumulator),
                                ClosingTag(ContentParam))) > 1
     /\ LastIndex(WriteToFileBody(accumulator), ClosingTag(ContentParam))
          > Index(WriteToFileBody(accumulator), OpeningTag(ContentParam)))
    => \A k \in WriteToFileBlocks(parsed) :
          ~parsed[k].partial =>
              /\ ContentParam \in DOMAIN parsed[k].params
              /\ parsed[k].params[ContentParam]
                   = TrimSpace(OuterContent(WriteToFileBody(accumulator)))

\* C8: for a completed write_to_file block whose text is a <content>
\* opening tag, a value without tags and the </content> closing tag, the
\* content parameter is that value, its leading and trailing blanks and
\* line breaks included.
C8_ContentVerbatim ==
    (/\ Returned
     /\ HasClosedWriteToFile(accumulator)
     /\ HasPrefix(WriteToFileBody(accumulator), OpeningTag(ContentParam))
     /\ HasSuffix(WriteToFileBody(accumulator), ClosingTag(ContentParam))
     /\ Cardinality(Occurrences(WriteToFileBody(accumulator),
                                ClosingTag(ContentParam))) = 1
     /\ Cardinality(Occurrences(WriteToFileBody(accumulator),
                                <<"<">>)) = 2)
    => \A k \in WriteToFileBlocks(parsed) :
          /\ ContentParam \in DOMAIN parsed[k].params
          /\ parsed[k].params[ContentParam]
               = OuterContent(WriteToFileBody(accumulator))

\* C8, up to the trimming of the ends of the value: the statement of C8
\* holds of the trimmed value.
C8_HoldsOfTrimmedValue ==
    (/\ Returned
     /\ HasClosedWriteToFile(accumulator)
     /\ HasPrefix(WriteToFileBody(accumulator), OpeningTag(ContentParam))
     /\ HasSuffix(WriteToFileBody(accumulator), ClosingTag(ContentParam))
     /\ Cardinality(Occurrences(WriteToFileBody(accumulator),
                                ClosingTag(ContentParam))) = 1
     /\ Cardinality(Occurrences(WriteToFileBody(accumulator),
                                <<"<">>)) = 2)
    => \A k \in WriteToFileBlocks(parsed) :
          /\ ContentParam \in DOMAIN parsed[k].params
          /\ parsed[k].params[ContentParam]
               = TrimSpace(OuterContent(WriteToFileBody(accumulator)))

-----------------------------------------------------------------------------
(* Whole-file replacement: calls on a diff of one complete block with an   *)
(* empty search body                                                       *)

MaxReplaceLines == 2

ReplaceLines == {<<"c">>, <<" ", "c">>}

WholeFileBodies == SeqsUpTo(ReplaceLines, MaxReplaceLines)

WholeFileDiff(r) == Join(BlockLines([search |-> <<>>, replace |-> r]))

InitWhole ==
    /\ diffContent \in {WholeFileDiff(r) : r \in WholeFileBodies}
    /\ originalContent \in Originals
    /\ isFinal \in BOOLEAN
    /\ DiffEntry

SpecWhole == InitWhole /\ [][NextDiff]_vars

\* C11: a final call on a diff of one complete block with an empty search
\* body and the replace lines R returns exactly the text of R, each line
\* with its line break, whether the original content is empty or not.
C11_EmptySearchReplacesWholeFile ==
    (Done /\ isFinal) =>
        \A r \in WholeFileBodies :
            diffContent = WholeFileDiff(r) =>
                status = "ok" /\ ret = BodyText(r)

\* C11: a final call replaced a non-empty original content by two lines.
C11_Witness ==
    /\ Done
    /\ isFinal
    /\ originalContent # <<>>
    /\ \E r \in WholeFileBodies :
          Len(r) = 2 /\ diffContent = WholeFileDiff(r) /\ ret = BodyText(r)

\* C12: when a block with an empty search body follows earlier blocks that
\* matched, the first of them literally, the call returns normally; on a
\* final call the result keeps what the earlier blocks produced and the
\* replace lines of the block stand for the original content from the
\* previous match end to the end.
C12_LaterEmptySearchReplacesRest ==
    (/\ Done
     /\ IsBlockDiff(diffContent)
     /\ \E k \in 2..Len(BlocksOf(diffContent)) :
           BlocksOf(diffContent)[k].search = <<>>
     /\ BlocksOf(diffContent)[1].search # <<>>
     /\ Index(originalContent,
              BodyText(BlocksOf(diffContent)[1].search)) # -1
     /\ AllMatch(originalContent, BlocksOf(diffContent), 0))
    => /\ status = "ok"
       /\ isFinal => ret = Spliced(originalContent, BlocksOf(diffContent), 0)

\* C12, on an empty original content: the statement of C12 holds of these
\* calls, where the previous match can only end at offset 0.
C12_HoldsOnEmptyOriginal ==
    (/\ Done
     /\ originalContent = <<>>
     /\ IsBlockDiff(diffContent)
     /\ \E k \in 2..Len(BlocksOf(diffContent)) :
           BlocksOf(diffContent)[k].search = <<>>
     /\ AllMatch(originalContent, BlocksOf(diffContent), 0))
    => /\ status = "ok"
       /\ isFinal => ret = Spliced(originalContent, BlocksOf(diffContent), 0)

-----------------------------------------------------------------------------
(* The lines of a text, read off its line breaks                           *)

\* the offsets just after the line breaks of text
AfterBreaks(text) == {p \in 1..Len(text) : text[p] = NL}

\* the offset at which the line numbered i (from 0) of text starts
OffsetOfLine(text, i) ==
    IF i = 0 THEN 0
    ELSE CHOOSE p \in AfterBreaks(text) :
            Cardinality({q \in AfterBreaks(text) : q <= p}) = i

\* the offset at which the line numbered i ends, its line break included;
\* the end of the text for a last line without line break
EndOfLine(text, i) ==
    IF i < Cardinality(AfterBreaks(text)) THEN OffsetOfLine(text, i + 1)
    ELSE Len(text)

\* the numbers of the lines of text that start at or after from and at
\* which a run of lines equals searchLines, line for line, after trimming
TrimmedRuns(text, searchLines, from) ==
    {i \in 0..(Cardinality(AfterBreaks(text)) + 1 - Len(searchLines)) :
        /\ OffsetOfLine(text, i) >= from
        /\ \A j \in 1..Len(searchLines) :
              TrimSpace(Slice(text, OffsetOfLine(text, i + j - 1),
                              IF i + j - 1 < Cardinality(AfterBreaks(text))
                              THEN OffsetOfLine(text, i + j) - 1
                              ELSE Len(text)))
                = TrimSpace(searchLines[j])}

\* searchContent has no literal occurrence in text at or after from
NoLiteralOccurrence(text, searchContent, from) ==
    \A p \in from..(Len(text) - Len(searchContent)) :
        SubSeq(text, p + 1, p + Len(searchContent)) # searchContent

\* C13: a block whose search body has no literal occurrence at or after the
\* previous match end, while runs of original lines equal its lines after
\* trimming, is matched (not rejected) to the first such run that starts at
\* or after the previous match end; the range starts where the first line
\* of the run starts and ends after the line break of its last line; on a
\* final call with that block alone the replace lines stand in the result
\* for the whole lines of the run.
C13_LineTrimmedMatchesWholeLines ==
    Done =>
        LET bs == BlocksOf(diffContent)
            n == Len(matches)
        IN  /\ \A k \in 1..n :
                 LET m == matches[k]
                     runs == TrimmedRuns(originalContent, bs[k].search, m.from)
                     i == Min(runs)
                     last == i + Len(bs[k].search) - 1
                 IN  (/\ bs[k].search # <<>>
                      /\ NoLiteralOccurrence(originalContent,
                                             BodyText(bs[k].search), m.from)
                      /\ runs # {})
                     => /\ m.by = "trimmed"
                        /\ m.start = OffsetOfLine(originalContent, i)
                        /\ m.end >= EndOfLine(originalContent, last)
                        /\ last < Cardinality(AfterBreaks(originalContent))
                              => m.end = EndOfLine(originalContent, last)
                        /\ (isFinal /\ Len(bs) = 1) =>
                              /\ status = "ok"
                              /\ ret = Slice(originalContent, 0,
                                             OffsetOfLine(originalContent, i))
                                       \o BodyText(bs[k].replace)
                                       \o Slice(originalContent,
                                                EndOfLine(originalContent, last),
                                                Len(originalContent))
            /\ status = "error" =>
                 LET from == IF n = 0 THEN 0 ELSE matches[n].end
                 IN  TrimmedRuns(originalContent, bs[n + 1].search, from) = {}

\* C13: after a first block matched literally, a second block whose search
\* line is indented otherwise than the original line was matched by the
\* line-trimmed fallback to a whole later line.
C13_Witness ==
    /\ Done
    /\ status = "ok"
    /\ Len(matches) = 2
    /\ matches[1].by = "exact"
    /\ matches[2].by = "trimmed"
    /\ matches[2].start >= matches[1].end
    /\ matches[2].end <= Len(originalContent)
    /\ Slice(originalContent, matches[2].start, matches[2].end)
         # BodyText(BlocksOf(diffContent)[2].search)

-----------------------------------------------------------------------------
(* The fallback matchers called directly, from the offsets at which        *)
(* ConstructNewFileContent calls them: the start of a line, the end of the *)
(* content or one past it                                                  *)

MaxMatchLines == 4

MatchOriginals ==
    {<<>>} \cup
    {Join(ls) \o tail :
        ls \in SeqsUpTo(OrigLines, MaxMatchLines) \ {<<>>},
        tail \in {<<>>, <<NL>>}}

\* search bodies as ConstructNewFileContent accumulates them: every line
\* followed by a line break
MatchBodies == SeqsUpTo(SearchLines, MaxSearchLines) \ {<<>>}
SearchContentOf(ls) == Join(ls) \o <<NL>>

StartIndexes(original) ==
    {p \in 0..(Len(original) + 1) :
        p = 0 \/ p >= Len(original) \/ original[p] = NL}

InitMatch ==
    /\ originalContent \in MatchOriginals
    /\ callSearchContent \in {SearchContentOf(ls) : ls \in MatchBodies}
    /\ callStartIndex \in StartIndexes(originalContent)
    /\ matcher = "none"
    /\ retStartIndex = 0
    /\ retEndIndex = 0
    /\ retErr = FALSE
    /\ diffContent = <<>>
    /\ isFinal = FALSE
    /\ lines = <<>>
    /\ lineIdx = 1
    /\ result = InitLocals.result
    /\ lastProcessedIndex = InitLocals.lastProcessedIndex
    /\ currentSearchContent = InitLocals.currentSearchContent
    /\ currentReplaceContent = InitLocals.currentReplaceContent
    /\ inSearch = InitLocals.inSearch
    /\ inReplace = InitLocals.inReplace
    /\ searchMatchIndex = InitLocals.searchMatchIndex
    /\ searchEndIndex = InitLocals.searchEndIndex
    /\ status = InitLocals.status
    /\ matches = InitLocals.matches
    /\ ret = <<>>
    /\ ParserIdle
    /\ RestIdle
    /\ pc = "call"

Returns(name, m) ==
    /\ pc = "call"
    /\ matcher' = name
    /\ retStartIndex' = m.start
    /\ retEndIndex' = m.end
    /\ retErr' = m.err
    /\ pc' = "matched"
    /\ UNCHANGED <<diffVars, parseVars, streamVars, restVars,
                   callSearchContent, callStartIndex>>

CallLineTrimmedFallbackMatch ==
    Returns("trimmed",
            LineTrimmedFallbackMatch(originalContent, callSearchContent,
                                     callStartIndex))

CallBlockAnchorFallbackMatch ==
    Returns("anchor",
            BlockAnchorFallbackMatch(originalContent, callSearchContent,
                                     callStartIndex))

NextMatch ==
    \/ CallLineTrimmedFallbackMatch
    \/ CallBlockAnchorFallbackMatch

SpecMatch == InitMatch /\ [][NextMatch]_vars

\* the lines of the search body of the call
CallSearchLines ==
    CHOOSE ls \in MatchBodies : SearchContentOf(ls) = callSearchContent

\* the numbers of the lines of text that start at or after from and at
\* which a block of Len(searchLines) lines has the first and the last line
\* of searchLines as its first and last line, after trimming
AnchoredBlocks(text, searchLines, from) ==
    {i \in 0..(Cardinality(AfterBreaks(text)) + 1 - Len(searchLines)) :
        /\ OffsetOfLine(text, i) >= from
        /\ \A j \in {1, Len(searchLines)} :
              TrimSpace(Slice(text, OffsetOfLine(text, i + j - 1),
                              IF i + j - 1 < Cardinality(AfterBreaks(text))
                              THEN OffsetOfLine(text, i + j) - 1
                              ELSE Len(text)))
                = TrimSpace(searchLines[j])}

\* C14: for a search body of n >= 3 lines that has no literal occurrence and
\* no trimmed-equal run of lines at or after the start offset, the
\* block-anchor fallback matches exactly when some block of n original
\* lines starting at or after the offset has the first and last search
\* lines as its first and last lines after trimming, whatever its interior
\* lines; the match is the first such block, from the start of its first
\* line to just after the line break of its last line.
C14_BlockAnchorMatchesByEnds ==
    (/\ pc = "matched"
     /\ matcher = "anchor"
     /\ Len(CallSearchLines) >= 3
     /\ NoLiteralOccurrence(originalContent, callSearchContent, callStartIndex)
     /\ TrimmedRuns(originalContent, CallSearchLines, callStartIndex) = {})
    => LET blocks == AnchoredBlocks(originalContent, CallSearchLines,
                                    callStartIndex)
           i == Min(blocks)
           last == i + Len(CallSearchLines) - 1
       IN  /\ retErr <=> blocks = {}
           /\ blocks # {} =>
                /\ retStartIndex = OffsetOfLine(originalContent, i)
                /\ retEndIndex >= EndOfLine(originalContent, last)
                /\ last < Cardinality(AfterBreaks(originalContent))
                      => retEndIndex = EndOfLine(originalContent, last)

\* C14: the block-anchor fallback, called from an offset after the first
\* line, matched a block of three lines that ends with a line break and
\* whose middle line differs from the middle search line.
C14_Witness ==
    /\ pc = "matched"
    /\ matcher = "anchor"
    /\ ~retErr
    /\ callStartIndex > 0
    /\ retStartIndex >= callStartIndex
    /\ retEndIndex <= Len(originalContent)
    /\ Len(CallSearchLines) = 3
    /\ NoLiteralOccurrence(originalContent, callSearchContent, callStartIndex)
    /\ TrimmedRuns(originalContent, CallSearchLines, callStartIndex) = {}

-----------------------------------------------------------------------------
(* The growth of the last, partial block as the message grows              *)

\* the character read in this step completes the closing tag of the open
\* parameter or of the open tool
ClosesOpenTag ==
    \/ currentParamName # "" /\ currentParamName' = ""
    \/ currentToolUse # NilBlock /\ currentToolUse' = NilBlock

\* block after carries on block before: same kind and name, the text (its
\* ends trimmed) and every parameter value of before a prefix of the
\* corresponding value of after
Extends(before, after) ==
    /\ after.type = before.type
    /\ after.name = before.name
    /\ IsPrefixOf(TrimSpace(before.content), after.content)
    /\ \A q \in DOMAIN before.params :
          /\ q \in DOMAIN after.params
          /\ IsPrefixOf(before.params[q], after.params[q])

\* C15: when the text read so far grows by one character that closes no
\* open tag, the block at the place of the final partial block of the
\* shorter parse extends it: its text content and each of its parameter
\* values has the shorter parse's value as a prefix.
C15_PartialBlockGrows ==
    [][(pc' = "scan" /\ ~ClosesOpenTag) =>
          LET before == Finalize(ParseLocals)
              after == Finalize(ParseLocals)'
              k == Len(before)
          IN  (k > 0 /\ before[k].partial) =>
                 /\ k <= Len(after)
                 /\ Extends(before[k], after[k])]_vars

\* C15, for the characters that complete no tag at all, opening or
\* closing: the statement of C15 holds of these.
C15_HoldsBetweenTags ==
    [][(/\ pc' = "scan"
        /\ currentParamName' = currentParamName
        /\ currentToolUse'.name = currentToolUse.name
        /\ Len(contentBlocks') = Len(contentBlocks)) =>
          LET before == Finalize(ParseLocals)
              after == Finalize(ParseLocals)'
              k == Len(before)
          IN  (k > 0 /\ before[k].partial) =>
                 /\ k <= Len(after)
                 /\ Extends(before[k], after[k])]_vars


-----------------------------------------------------------------------------
(* ParseDiff (diff.go:243-267): the diff text is split into blocks by the  *)
(* regular expression                                                      *)
(*   (?s)<<<<<<< SEARCH\n(.*?)\n=======\n(.*?)\n>>>>>>> REPLACE            *)
(* Go's regexp package returns, of the matches that start leftmost, the    *)
(* one a backtracking search finds first: each (.*?) takes the fewest      *)
(* characters with which the rest of the expression still matches, and     *)
(* with (?s) the dot matches a line break as well.  FindAllStringSubmatch  *)
(* returns the successive matches that do not overlap.                     *)

SearchOpen == SearchMarker \o <<NL>>
DividerBetween == <<NL>> \o DividerMarker \o <<NL>>
ReplaceClose == <<NL>> \o ReplaceMarker

\* the dividers, after a SEARCH marker at offset p, with which the rest of
\* the expression matches
DividersFor(text, p) ==
    {d \in Occurrences(text, DividerBetween) :
        /\ d >= p + Len(SearchOpen)
        /\ \E r \in Occurrences(text, ReplaceClose) :
              r >= d + Len(DividerBetween)}

\* the offsets at which the expression matches
MatchStarts(text) ==
    {p \in Occurrences(text, SearchOpen) : DividersFor(text, p) # {}}

\* the match at offset p: where it ends, and the submatches (the whole
\* match and the two groups)
SubmatchAt(text, p) ==
    LET d == Min(DividersFor(text, p))
        r == Min({q \in Occurrences(text, ReplaceClose) :
                     q >= d + Len(DividerBetween)})
        end == r + Len(ReplaceClose)
    IN  [end |-> end,
         match |-> << Slice(text, p, end),
                      Slice(text, p + Len(SearchOpen), d),
                      Slice(text, d + Len(DividerBetween), r) >>]

RECURSIVE FindAllFrom(_, _)
FindAllFrom(text, pos) ==
    LET starts == {p \in MatchStarts(text) : p >= pos}
    IN  IF starts = {} THEN <<>>
        ELSE LET m == SubmatchAt(text, Min(starts))
             IN  <<m.match>> \o FindAllFrom(text, m.end)

\* re.FindAllStringSubmatch(diffContent, -1)
FindAllStringSubmatch(text) == FindAllFrom(text, 0)

\* lines 252-260: the body of the loop over the matches
CollectBlock(collected, match) ==
    IF Len(match) = 3
    THEN Append(collected, [search |-> match[2], replace |-> match[3]])
    ELSE collected

(* The diffs given to ParseDiff: diffs made of complete blocks whose       *)
(* search body and replace body have any number of lines from none on,     *)
(* with or without a line break after the last marker, and the diffs of    *)
(* arbitrary marker and content lines.                                     *)

MaxSplitBlocks == 2
MaxBodyLines == 2

SplitSearchBodies == SeqsUpTo({<<"a">>}, MaxBodyLines)
SplitReplaceBodies == SeqsUpTo({<<"c">>}, MaxBodyLines)

SplitBlocks ==
    [search : SplitSearchBodies, replace : SplitReplaceBodies]

SplitBlockSeqs == SeqsUpTo(SplitBlocks, MaxSplitBlocks) \ {<<>>}

SplitDiffOf(bs, tail) == Join(BlocksLines(bs)) \o tail

SplitDiffs ==
    {SplitDiffOf(bs, tail) : bs \in SplitBlockSeqs, tail \in {<<>>, <<NL>>}}

InitSplit ==
    /\ diffContent \in SplitDiffs \cup RawDiffs
    /\ originalContent = <<>>
    /\ isFinal = FALSE
    /\ lines = <<>>
    /\ lineIdx = 1
    /\ result = InitLocals.result
    /\ lastProcessedIndex = InitLocals.lastProcessedIndex
    /\ currentSearchContent = InitLocals.currentSearchContent
    /\ currentReplaceContent = InitLocals.currentReplaceContent
    /\ inSearch = InitLocals.inSearch
    /\ inReplace = InitLocals.inReplace
    /\ searchMatchIndex = InitLocals.searchMatchIndex
    /\ searchEndIndex = InitLocals.searchEndIndex
    /\ status = InitLocals.status
    /\ matches = InitLocals.matches
    /\ ret = <<>>
    /\ ParserIdle
    /\ MatcherIdle
    /\ SplitIdle
    /\ IgnoreIdle
    /\ ProviderIdle
    /\ pc = "regexp"

\* line 250
FindMatches ==
    /\ pc = "regexp"
    /\ submatches' = FindAllStringSubmatch(diffContent)
    /\ pc' = "range"
    /\ UNCHANGED <<matchNum, diffBlocks, parseDiffStatus>>
    /\ UNCHANGED <<diffVars, parseVars, streamVars, matchVars, ignoreVars,
                   providerVars>>

\* lines 252-260
RangeMatch ==
    /\ pc = "range"
    /\ matchNum <= Len(submatches)
    /\ diffBlocks' = CollectBlock(diffBlocks, submatches[matchNum])
    /\ matchNum' = matchNum + 1
    /\ UNCHANGED <<submatches, parseDiffStatus, pc>>
    /\ UNCHANGED <<diffVars, parseVars, streamVars, matchVars, ignoreVars,
                   providerVars>>

\* lines 262-266
ReturnBlocks ==
    /\ pc = "range"
    /\ matchNum > Len(submatches)
    /\ parseDiffStatus' = IF Len(diffBlocks) = 0 THEN "error" ELSE "ok"
    /\ pc' = "split_returned"
    /\ UNCHANGED <<submatches, matchNum, diffBlocks>>
    /\ UNCHANGED <<diffVars, parseVars, streamVars, matchVars, ignoreVars,
                   providerVars>>

NextSplit ==
    \/ FindMatches
    \/ RangeMatch
    \/ ReturnBlocks

SpecSplit == InitSplit /\ [][NextSplit]_vars

-----------------------------------------------------------------------------
(* Properties of ParseDiff                                                 *)

SplitReturned == pc = "split_returned"

\* the blocks a diff of SplitDiffs was made of
SplitBlocksOf(diff) ==
    CHOOSE bs \in SplitBlockSeqs :
        \E tail \in {<<>>, <<NL>>} : SplitDiffOf(bs, tail) = diff

\* the blocks of bs as search and replace texts: the lines between the
\* marker lines
RECURSIVE BlockTexts(_)
BlockTexts(bs) ==
    IF bs = <<>> THEN <<>>
    ELSE <<[search |-> Join(Head(bs).search),
            replace |-> Join(Head(bs).replace)]>> \o BlockTexts(Tail(bs))

HasEmptyBody(bs) ==
    \E k \in 1..Len(bs) : bs[k].search = <<>> \/ bs[k].replace = <<>>

\* C16: for a diff made of complete blocks, whose search and replace bodies
\* may be empty, ParseDiff returns without error one block per
\* SEARCH/REPLACE pair, in order, each with the lines between its marker
\* lines as search and replace.
C16_OneBlockPerPair ==
    (SplitReturned /\ diffContent \in SplitDiffs) =>
        /\ parseDiffStatus = "ok"
        /\ diffBlocks = BlockTexts(SplitBlocksOf(diffContent))

\* the same holds of the diffs in which no body is empty
C16_HoldsOfNonEmptyBodies ==
    (/\ SplitReturned
     /\ diffContent \in SplitDiffs
     /\ ~HasEmptyBody(SplitBlocksOf(diffContent))) =>
        /\ parseDiffStatus = "ok"
        /\ diffBlocks = BlockTexts(SplitBlocksOf(diffContent))

\* the lines of diff hold a SEARCH marker line, after it a divider line and
\* after that a REPLACE marker line, with at least gap - 1 lines between
\* one and the next
HasTriad(diff, gap) ==
    LET ls == Split(diff)
    IN  \E i, j, k \in 1..Len(ls) :
            /\ ls[i] = SearchMarker
            /\ ls[j] = DividerMarker
            /\ ls[k] = ReplaceMarker
            /\ j >= i + gap
            /\ k >= j + gap

\* C17: ParseDiff returns the error exactly when the diff holds no complete
\* SEARCH / divider / REPLACE triad, and otherwise a non-empty list of
\* blocks without error; an empty list is never returned without the error.
C17_ErrorIffNoTriad ==
    SplitReturned =>
        /\ (parseDiffStatus = "error") <=> ~HasTriad(diffContent, 1)
        /\ (parseDiffStatus = "error") <=> (diffBlocks = <<>>)

\* the same holds when the triads counted are those with at least one line
\* in the search body and one in the replace body
C17_HoldsOfTriadsWithBodies ==
    SplitReturned =>
        /\ (parseDiffStatus = "error") <=> ~HasTriad(diffContent, 2)
        /\ (parseDiffStatus = "error") <=> (diffBlocks = <<>>)

-----------------------------------------------------------------------------
(* The ignore controller (internal/core/ignore/ignore.go) and the watcher  *)
(* of the .golineignore file (internal/core/ignore/watcher.go).            *)
(*                                                                         *)
(* Paths are Unix paths.  The functions of path/filepath and of            *)
(* github.com/sabhiram/go-gitignore that the controller calls are          *)
(* computed on the characters of their arguments.  Of the gitignore syntax *)
(* the model has comments, blank lines, negation, a leading and a trailing *)
(* slash and the single star; the lines given to it hold no "**", no "?"   *)
(* and no backslash.                                                       *)

\* strings.Contains
Contains(s, sub) == Occurrences(s, sub) # {}

\* strings.Split(s, sep) for a separator of one character
RECURSIVE SplitBy(_, _)
SplitBy(s, sep) ==
    LET k == Index(s, <<sep>>)
    IN  IF k = -1 THEN <<s>>
        ELSE <<Slice(s, 0, k)>> \o SplitBy(Slice(s, k + 1, Len(s)), sep)

\* strings.Join(elems, sep)
RECURSIVE JoinBy(_, _)
JoinBy(elems, sep) ==
    IF elems = <<>> THEN <<>>
    ELSE IF Len(elems) = 1 THEN elems[1]
    ELSE elems[1] \o <<sep>> \o JoinBy(Tail(elems), sep)

\* strings.Trim(s, " ")
TrimBlanks(s) ==
    LET keep == {k \in 1..Len(s) : s[k] # " "}
    IN  IF keep = {} THEN <<>> ELSE SubSeq(s, Min(keep), Max(keep))

\* strings.Fields: the maximal runs of characters that are not white space
RECURSIVE Fields(_)
Fields(s) ==
    LET starts == {k \in 1..Len(s) : ~IsSpace(s[k])}
    IN  IF starts = {} THEN <<>>
        ELSE LET b == Min(starts)
                 stops == {k \in b..Len(s) : IsSpace(s[k])}
                 e == IF stops = {} THEN Len(s) + 1 ELSE Min(stops)
             IN  <<SubSeq(s, b, e - 1)>> \o Fields(SubSeq(s, e, Len(s)))

\* strings.ToLower on ASCII
UpperToLower ==
    [A |-> "a", B |-> "b", C |-> "c", D |-> "d", E |-> "e", F |-> "f",
     G |-> "g", H |-> "h", I |-> "i", J |-> "j", K |-> "k", L |-> "l",
     M |-> "m", N |-> "n", O |-> "o", P |-> "p", Q |-> "q", R |-> "r",
     S |-> "s", T |-> "t", U |-> "u", V |-> "v", W |-> "w", X |-> "x",
     Y |-> "y", Z |-> "z"]

ToLower(s) ==
    [k \in 1..Len(s) |->
        IF s[k] \in DOMAIN UpperToLower THEN UpperToLower[s[k]] ELSE s[k]]

(* path/filepath on Unix                                                   *)

\* filepath.IsAbs
IsAbs(p) == HasPrefix(p, <<"/">>)

\* the elements of a path that filepath.Clean keeps: "" and "." are
\* dropped, ".." removes the element before it, is dropped at the root
\* and is kept at the start of a relative path
RECURSIVE CleanElems(_, _, _)
CleanElems(elems, kept, rooted) ==
    IF elems = <<>> THEN kept
    ELSE LET e == Head(elems)
             rest == Tail(elems)
         IN  IF e = <<>> \/ e = <<".">> THEN CleanElems(rest, kept, rooted)
             ELSE IF e = <<".", ".">>
             THEN IF kept # <<>> /\ kept[Len(kept)] # <<".", ".">>
                  THEN CleanElems(rest, SubSeq(kept, 1, Len(kept) - 1),
                                  rooted)
                  ELSE IF rooted THEN CleanElems(rest, kept, rooted)
                  ELSE CleanElems(rest, Append(kept, e), rooted)
             ELSE CleanElems(rest, Append(kept, e), rooted)

\* filepath.Clean
Clean(p) ==
    LET rooted == IsAbs(p)
        kept == CleanElems(SplitBy(p, "/"), <<>>, rooted)
    IN  IF rooted THEN <<"/">> \o JoinBy(kept, "/")
        ELSE IF kept = <<>> THEN <<".">>
        ELSE JoinBy(kept, "/")

\* filepath.Join(dir, p)
FilepathJoin(dir, p) ==
    IF p = <<>> THEN Clean(dir) ELSE Clean(dir \o <<"/">> \o p)

\* the number of leading elements two paths share
RECURSIVE SharedElems(_, _)
SharedElems(xs, ys) ==
    IF xs = <<>> \/ ys = <<>> \/ Head(xs) # Head(ys) THEN 0
    ELSE 1 + SharedElems(Tail(xs), Tail(ys))

\* filepath.Rel(basepath, targpath): the relative path, or the error
RelElems(p) ==
    LET c == Clean(p)
    IN  IF c = <<"/">> \/ c = <<".">> THEN <<>>
        ELSE SplitBy(IF IsAbs(c) THEN Tail(c) ELSE c, "/")

Rel(basepath, targpath) ==
    LET bs == RelElems(basepath)
        ts == RelElems(targpath)
        n == SharedElems(bs, ts)
        up == [k \in 1..(Len(bs) - n) |-> <<".", ".">>]
        down == SubSeq(ts, n + 1, Len(ts))
    IN  IF IsAbs(Clean(basepath)) # IsAbs(Clean(targpath))
        THEN [err |-> TRUE, path |-> <<>>]
        ELSE IF \E k \in (n + 1)..Len(bs) : bs[k] = <<".", ".">>
        THEN [err |-> TRUE, path |-> <<>>]
        ELSE IF up \o down = <<>> THEN [err |-> FALSE, path |-> <<".">>]
        ELSE [err |-> FALSE, path |-> JoinBy(up \o down, "/")]

(* go-gitignore                                                            *)

\* a line that compiles to no pattern
NoPattern == [none |-> TRUE, negate |-> FALSE, rooted |-> FALSE,
              dir |-> FALSE, glob |-> <<>>]

\* "If we encounter a foo/*.blah in a folder, prepend the / char": the
\* line matches ([^\/+])/.*\*\.
HasFolderGlob(line) ==
    \E i \in 1..(Len(line) - 1) :
        /\ line[i] \notin {"/", "+"}
        /\ line[i + 1] = "/"
        /\ \E j \in (i + 2)..(Len(line) - 1) :
              line[j] = "*" /\ line[j + 1] = "."

\* getPatternFromLine: a comment or a blank line gives no pattern; a
\* leading "!" negates; the pattern is rooted when it starts with "/" and
\* names a directory when it ends with "/"
GetPatternFromLine(text) ==
    LET trimmed == TrimBlanks(text)
        negate == trimmed # <<>> /\ trimmed[1] = "!"
        positive == IF negate THEN Tail(trimmed) ELSE trimmed
        unescaped == IF positive # <<>> /\ positive[1] \in {"#", "!"}
                     THEN Tail(positive) ELSE positive
        line == IF HasFolderGlob(unescaped) /\ unescaped[1] # "/"
                THEN <<"/">> \o unescaped ELSE unescaped
        rooted == HasPrefix(line, <<"/">>)
    IN  IF HasPrefix(text, <<"#">>) \/ trimmed = <<>> THEN NoPattern
        ELSE [none |-> FALSE, negate |-> negate, rooted |-> rooted,
              dir |-> HasSuffix(line, <<"/">>),
              glob |-> IF rooted THEN Tail(line) ELSE line]

\* ignore.CompileIgnoreLines: the patterns of the lines, in order
RECURSIVE CompileIgnoreLines(_)
CompileIgnoreLines(ls) ==
    IF ls = <<>> THEN <<>>
    ELSE LET p == GetPatternFromLine(Head(ls))
         IN  (IF p.none THEN <<>> ELSE <<p>>) \o CompileIgnoreLines(Tail(ls))

\* the glob matches all of s: a star stands for characters other than "/"
RECURSIVE GlobMatch(_, _)
GlobMatch(glob, s) ==
    IF glob = <<>> THEN s = <<>>
    ELSE IF Head(glob) = "*"
    THEN \/ GlobMatch(Tail(glob), s)
         \/ s # <<>> /\ Head(s) # "/" /\ GlobMatch(glob, Tail(s))
    ELSE s # <<>> /\ Head(s) = Head(glob) /\ GlobMatch(Tail(glob), Tail(s))

\* Pattern.MatchString: the expression is ^(|.*/) or, rooted, ^(|/) ; then
\* the glob; then (|/.*)$ or, for a directory, (|.*)$
PatternMatches(p, f) ==
    \E lo \in 0..Len(f), hi \in 0..Len(f) :
        /\ lo <= hi
        /\ \/ lo = 0
           \/ f[lo] = "/" /\ (p.rooted => lo = 1)
        /\ \/ hi = Len(f)
           \/ p.dir
           \/ f[hi + 1] = "/"
        /\ GlobMatch(p.glob, Slice(f, lo, hi))

\* GitIgnore.MatchesPath: the last pattern that matches decides, a negated
\* one clearing an earlier match
RECURSIVE MatchesFrom(_, _, _)
MatchesFrom(patterns, f, matchesPath) ==
    IF patterns = <<>> THEN matchesPath
    ELSE LET ip == Head(patterns)
         IN  MatchesFrom(Tail(patterns), f,
                 IF PatternMatches(ip, f)
                 THEN (IF ~ip.negate THEN TRUE ELSE FALSE)
                 ELSE matchesPath)

MatchesPath(patterns, f) == MatchesFrom(patterns, f, FALSE)

(* Controller                                                              *)

\* the working directory of the controller, and the file it loads
cwd == <<"/", "w">>
IgnoreFileName == <<".", "g", "o", "l", "i", "n", "e", "i", "g", "n", "o", "r", "e">>

Instance(patterns) == [nil |-> FALSE, patterns |-> patterns]

\* lines 54-66: what loadGolineIgnore stores for a file that holds content
LoadContent(content) ==
    LET contentWithSelf ==
            IF ~Contains(content, IgnoreFileName)
            THEN content \o <<NL>> \o IgnoreFileName
            ELSE content
    IN  [golineIgnoreContent |-> content,
         ignoreInstance |->
             Instance(CompileIgnoreLines(Split(contentWithSelf)))]

\* the texts the file holds, and what is stored for each
FileContents ==
    {<<>>,
     <<".", "e", "n", "v">>,
     <<"*", ".", "e", "n", "v">>,
     <<"#", " ", ".", "g", "o", "l", "i", "n", "e", "i", "g", "n", "o", "r", "e", NL, ".", "e", "n", "v">>,
     <<"!", ".", "g", "o", "l", "i", "n", "e", "i", "g", "n", "o", "r", "e">>,
     <<".", "g", "o", "l", "i", "n", "e", "i", "g", "n", "o", "r", "e", ".", "b", "a", "k">>}

Loaded == [content \in FileContents |-> LoadContent(content)]

\* lines 38-68: what loadGolineIgnore stores, from whether the file exists
\* and what it holds
LoadGolineIgnore(exists, content) ==
    IF ~exists
    THEN [golineIgnoreContent |-> <<>>, ignoreInstance |-> NilInstance]
    ELSE Loaded[content]

\* lines 72-95
ValidateAccess(instance, filePath) ==
    IF instance.nil THEN TRUE
    ELSE LET absolutePath == IF ~IsAbs(filePath)
                             THEN FilepathJoin(cwd, filePath)
                             ELSE filePath
             relativePath == Rel(cwd, absolutePath)
         IN  IF relativePath.err THEN TRUE
             ELSE ~MatchesPath(instance.patterns, relativePath.path)

\* lines 114-130
FileReadingCommands ==
    {<<"c", "a", "t">>,
     <<"l", "e", "s", "s">>,
     <<"m", "o", "r", "e">>,
     <<"h", "e", "a", "d">>,
     <<"t", "a", "i", "l">>,
     <<"g", "r", "e", "p">>,
     <<"a", "w", "k">>,
     <<"s", "e", "d">>,
     <<"g", "e", "t", "-", "c", "o", "n", "t", "e", "n", "t">>,
     <<"g", "c">>,
     <<"t", "y", "p", "e">>,
     <<"s", "e", "l", "e", "c", "t", "-", "s", "t", "r", "i", "n", "g">>,
     <<"s", "l", "s">>}

\* lines 134-148: the first argument from parts[i] on that is taken for a
\* path and denied, or ""
RECURSIVE FirstDeniedArg(_, _, _)
FirstDeniedArg(instance, parts, i) ==
    IF i > Len(parts) THEN <<>>
    ELSE LET arg == parts[i]
         IN  IF HasPrefix(arg, <<"-">>) \/ HasPrefix(arg, <<"/">>)
             THEN FirstDeniedArg(instance, parts, i + 1)
             ELSE IF Contains(arg, <<":">>)
             THEN FirstDeniedArg(instance, parts, i + 1)
             ELSE IF ~ValidateAccess(instance, arg) THEN arg
             ELSE FirstDeniedArg(instance, parts, i + 1)

\* lines 99-152
ValidateCommand(instance, command) ==
    LET parts == Fields(command)
    IN  IF instance.nil THEN <<>>
        ELSE IF Len(parts) = 0 THEN <<>>
        ELSE IF ToLower(parts[1]) \in FileReadingCommands
        THEN FirstDeniedArg(instance, parts, 2)
        ELSE <<>>

(* Watcher                                                                 *)

\* lines 88-97: the time updateLastModTime records
StatModTime(exists, modTime) == IF exists THEN modTime ELSE ZeroTime

\* checkForChanges without lines 63-72: a deleted file is not reloaded
ChangeSeenIgnoresDeletion(exists, modTime, last) ==
    exists /\ modTime # last

\* lines 61-84: whether checkForChanges goes on to reload
ChangeSeen(exists, modTime, last) ==
    IF ~exists THEN last # ZeroTime ELSE modTime # last

(* The file, the calls and the watcher's goroutine                         *)

MaxModTime == 2
ModTimes == 1..MaxModTime

AccessPaths ==
    {<<".", "g", "o", "l", "i", "n", "e", "i", "g", "n", "o", "r", "e">>,
     <<".", "/", ".", "g", "o", "l", "i", "n", "e", "i", "g", "n", "o", "r", "e">>,
     <<"/", "w", "/", ".", "g", "o", "l", "i", "n", "e", "i", "g", "n", "o", "r", "e">>,
     <<".", "e", "n", "v">>,
     <<"/", "w", "/", ".", "e", "n", "v">>,
     <<"a", "/", ".", "e", "n", "v">>,
     <<".", ".", "/", ".", "e", "n", "v">>,
     <<"R", "E", "A", "D", "M", "E">>}

Commands ==
    {<<"c", "a", "t", " ", ".", "e", "n", "v">>,
     <<"c", "a", "t", " ", "/", "w", "/", ".", "e", "n", "v">>,
     <<"c", "a", "t", " ", "R", "E", "A", "D", "M", "E">>,
     <<"C", "A", "T", " ", ".", "e", "n", "v">>,
     <<"l", "s", " ", ".", "e", "n", "v">>,
     <<"h", "e", "a", "d", " ", "-", "n", " ", "1", " ", "a", "/", ".", "e", "n", "v">>,
     <<"g", "r", "e", "p", " ", "x", " ", "R", "E", "A", "D", "M", "E", " ", "/", "w", "/", ".", "e", "n", "v">>,
     <<"c", "a", "t", " ", "-", "n", " ", ".", "/", ".", "e", "n", "v">>}

\* NewController (lines 23-29) and NewWatcher (watcher.go:20-27) in a
\* directory in which the file is absent or present
InitIgnore ==
    /\ \/ /\ fileExists = FALSE
          /\ fileContent = <<>>
          /\ fileModTime = ZeroTime
       \/ /\ fileExists = TRUE
          /\ fileContent \in FileContents
          /\ fileModTime \in ModTimes
    /\ golineIgnoreContent = <<>>
    /\ ignoreInstance = NilInstance
    /\ asked = "none"
    /\ accessPath = <<>>
    /\ accessRet = TRUE
    /\ commandLine = <<>>
    /\ commandRet = <<>>
    /\ lastModTime = ZeroTime
    /\ watchPc = "none"
    /\ stopChan = "open"
    /\ tickerC = 0
    /\ change = "none"
    /\ replaced = NilInstance
    /\ DiffIdle
    /\ ParserIdle
    /\ MatcherIdle
    /\ SplitIdle
    /\ ProviderIdle
    /\ pc = "ignore"

outsideIgnore ==
    <<diffVars, parseVars, streamVars, matchVars, splitVars, providerVars, pc>>

\* the values a call returned are gone once anything else happens; a call
\* of ValidateAccess that is under way ("checking") goes on
NoAnswer ==
    IF asked = "checking"
    THEN UNCHANGED <<asked, accessPath, accessRet, commandLine, commandRet>>
    ELSE /\ asked' = "none"
         /\ accessPath' = <<>>
         /\ accessRet' = TRUE
         /\ commandLine' = <<>>
         /\ commandRet' = <<>>

\* the watcher's goroutine runs and has not been told to stop
Watching == watchPc \in {"select", "reload"} /\ stopChan = "open"

\* the file is written: created, or its modification time and contents
\* changed
WriteFile ==
    /\ pc = "ignore"
    /\ \E content \in FileContents, modTime \in ModTimes :
          /\ fileExists' = TRUE
          /\ fileContent' = content
          /\ fileModTime' = modTime
          /\ change' = IF Watching /\ (~fileExists \/ modTime # fileModTime)
                       THEN "pending" ELSE change
    /\ NoAnswer
    /\ UNCHANGED <<golineIgnoreContent, ignoreInstance, lastModTime, watchPc,
                   stopChan, tickerC, replaced>>
    /\ UNCHANGED outsideIgnore

\* the file is deleted
RemoveFile ==
    /\ pc = "ignore"
    /\ fileExists
    /\ fileExists' = FALSE
    /\ fileContent' = <<>>
    /\ fileModTime' = ZeroTime
    /\ change' = IF Watching THEN "pending" ELSE change
    /\ NoAnswer
    /\ UNCHANGED <<golineIgnoreContent, ignoreInstance, lastModTime, watchPc,
                   stopChan, tickerC, replaced>>
    /\ UNCHANGED outsideIgnore

\* a load that keeps what was loaded before when the file is missing,
\* without lines 45-46
LoadsKeepsWhenMissing ==
    IF fileExists
    THEN /\ golineIgnoreContent' = Loaded[fileContent].golineIgnoreContent
         /\ ignoreInstance' = Loaded[fileContent].ignoreInstance
    ELSE UNCHANGED <<golineIgnoreContent, ignoreInstance>>

\* the controller loads the file as it is now
Loads ==
    LET loaded == LoadGolineIgnore(fileExists, fileContent)
    IN  /\ golineIgnoreContent' = loaded.golineIgnoreContent
        /\ ignoreInstance' = loaded.ignoreInstance

\* lines 33-35; the controller is initialized when it is made, before a
\* watcher of it is started
Initialize ==
    /\ pc = "ignore"
    /\ watchPc = "none"
    /\ Loads
    /\ NoAnswer
    /\ UNCHANGED <<fileExists, fileContent, fileModTime, lastModTime,
                   watchPc, stopChan, tickerC, change,
                   replaced>>
    /\ UNCHANGED outsideIgnore

\* lines 168-170, called by the program
Reload ==
    /\ pc = "ignore"
    /\ Loads
    /\ replaced' = ignoreInstance
    /\ NoAnswer
    /\ UNCHANGED <<fileExists, fileContent, fileModTime, lastModTime,
                   watchPc, stopChan, tickerC, change>>
    /\ UNCHANGED outsideIgnore

CallValidateAccess ==
    /\ pc = "ignore"
    /\ \E filePath \in AccessPaths :
          /\ accessPath' = filePath
          /\ accessRet' = ValidateAccess(ignoreInstance, filePath)
    /\ asked' = "access"
    /\ commandLine' = <<>>
    /\ commandRet' = <<>>
    /\ UNCHANGED <<fileExists, fileContent, fileModTime, golineIgnoreContent,
                   ignoreInstance, lastModTime, watchPc, stopChan, tickerC, change,
                   replaced>>
    /\ UNCHANGED outsideIgnore

CallValidateCommand ==
    /\ pc = "ignore"
    /\ \E command \in Commands :
          /\ commandLine' = command
          /\ commandRet' = ValidateCommand(ignoreInstance, command)
    /\ asked' = "command"
    /\ accessPath' = <<>>
    /\ accessRet' = TRUE
    /\ UNCHANGED <<fileExists, fileContent, fileModTime, golineIgnoreContent,
                   ignoreInstance, lastModTime, watchPc, stopChan, tickerC, change,
                   replaced>>
    /\ UNCHANGED outsideIgnore

NextIgnore ==
    \/ WriteFile
    \/ RemoveFile
    \/ Initialize
    \/ Reload
    \/ CallValidateAccess
    \/ CallValidateCommand

SpecIgnore == InitIgnore /\ [][NextIgnore]_vars

\* watcher.go:30-36
Start ==
    /\ pc = "ignore"
    /\ watchPc = "none"
    /\ lastModTime' = StatModTime(fileExists, fileModTime)
    /\ watchPc' = "select"
    /\ NoAnswer
    /\ UNCHANGED <<fileExists, fileContent, fileModTime, golineIgnoreContent,
                   ignoreInstance, stopChan, tickerC, change,
                   replaced>>
    /\ UNCHANGED outsideIgnore

\* watcher.go:39-41
Stop ==
    /\ pc = "ignore"
    /\ stopChan = "open"
    /\ stopChan' = "closed"
    /\ NoAnswer
    /\ UNCHANGED <<fileExists, fileContent, fileModTime, golineIgnoreContent,
                   ignoreInstance, lastModTime, watchPc, tickerC, change,
                   replaced>>
    /\ UNCHANGED outsideIgnore

\* watcher.go:45: every interval the ticker puts a tick in its channel,
\* which holds one tick; a tick that finds the channel full is dropped
TickerFires ==
    /\ pc = "ignore"
    /\ watchPc \in {"select", "reload"}
    /\ tickerC = 0
    /\ tickerC' = 1
    /\ NoAnswer
    /\ UNCHANGED <<fileExists, fileContent, fileModTime, golineIgnoreContent,
                   ignoreInstance, lastModTime, watchPc, stopChan, change,
                   replaced>>
    /\ UNCHANGED outsideIgnore

\* watcher.go:50-51 and 59-85 up to the call of Reload: a tick is received
\* and the file is looked at
CheckForChanges ==
    /\ pc = "ignore"
    /\ watchPc = "select"
    /\ tickerC = 1
    /\ tickerC' = 0
    /\ IF ChangeSeen(fileExists, fileModTime, lastModTime)
       THEN /\ lastModTime' = StatModTime(fileExists, fileModTime)
            /\ watchPc' = "reload"
       ELSE UNCHANGED <<lastModTime, watchPc>>
    /\ NoAnswer
    /\ UNCHANGED <<fileExists, fileContent, fileModTime, golineIgnoreContent,
                   ignoreInstance, stopChan, change,
                   replaced>>
    /\ UNCHANGED outsideIgnore

\* watcher.go:67 and 80: w.controller.Reload()
WatcherReload ==
    /\ pc = "ignore"
    /\ watchPc = "reload"
    /\ Loads
    /\ change' = IF change = "pending" THEN "followed" ELSE change
    /\ watchPc' = "select"
    /\ NoAnswer
    /\ UNCHANGED <<fileExists, fileContent, fileModTime, lastModTime,
                   stopChan, tickerC, replaced>>
    /\ UNCHANGED outsideIgnore

\* watcher.go:52-53
StopSeen ==
    /\ pc = "ignore"
    /\ watchPc = "select"
    /\ stopChan = "closed"
    /\ watchPc' = "exited"
    /\ NoAnswer
    /\ UNCHANGED <<fileExists, fileContent, fileModTime, golineIgnoreContent,
                   ignoreInstance, lastModTime, stopChan, tickerC, change,
                   replaced>>
    /\ UNCHANGED outsideIgnore

NextWatch ==
    \/ WriteFile
    \/ RemoveFile
    \/ Initialize
    \/ Start
    \/ Stop
    \/ TickerFires
    \/ CheckForChanges
    \/ WatcherReload
    \/ StopSeen

SpecWatch == InitIgnore /\ [][NextWatch]_vars

\* the ticker fires for as long as the goroutine runs, the goroutine is
\* scheduled when a tick waits for it, and a call of Reload returns
SpecWatchFair ==
    /\ SpecWatch
    /\ WF_vars(TickerFires)
    /\ WF_vars(CheckForChanges)
    /\ WF_vars(WatcherReload)

-----------------------------------------------------------------------------
(* Properties of the ignore controller                                     *)

\* C18: when the controller has loaded a .golineignore file that exists,
\* ValidateAccess(".golineignore") returns false, whatever the file holds.
C18_IgnoreFileDenied ==
    (/\ asked = "access"
     /\ accessPath = IgnoreFileName
     /\ ~ignoreInstance.nil) => accessRet = FALSE

\* the same holds of the files in which the name .golineignore does not
\* occur
C18_HoldsWhenNameNotInFile ==
    (/\ asked = "access"
     /\ accessPath = IgnoreFileName
     /\ ~ignoreInstance.nil
     /\ ~Contains(golineIgnoreContent, IgnoreFileName)) => accessRet = FALSE

\* the command of the last call is a file-reading command
ReadsFiles ==
    LET parts == Fields(commandLine)
    IN  Len(parts) > 0 /\ ToLower(parts[1]) \in FileReadingCommands

\* the arguments of the last command that ValidateAccess denies, of those
\* that are no options: such as do not start with one of the characters of
\* optionMarks and hold none of the characters of nameMarks
DeniedArgs(optionMarks, nameMarks) ==
    LET parts == Fields(commandLine)
    IN  {i \in 2..Len(parts) :
            /\ parts[i] # <<>>
            /\ parts[i][1] \notin optionMarks
            /\ \A k \in 1..Len(parts[i]) : parts[i][k] \notin nameMarks
            /\ ~ValidateAccess(ignoreInstance, parts[i])}

\* C19: ValidateCommand returns a non-empty path for a file-reading command
\* one of whose arguments other than options names a file that
\* ValidateAccess denies, be the argument a relative or an absolute path,
\* and the empty string for every other command.
C19_DeniedArgBlocksCommand ==
    asked = "command" =>
        ((ReadsFiles /\ DeniedArgs({"-"}, {}) # {}) <=> commandRet # <<>>)

\* the same holds when the arguments that start with "/" or hold a ":" are
\* left out, as they are by ValidateCommand
C19_HoldsOfRelativeArgs ==
    asked = "command" =>
        ((ReadsFiles /\ DeniedArgs({"-", "/"}, {":"}) # {})
            <=> commandRet # <<>>)

-----------------------------------------------------------------------------
(* Properties of the watcher                                               *)

\* what the watcher recorded at its last look differs from the file
OutOfDate == StatModTime(fileExists, fileModTime) # lastModTime

-----------------------------------------------------------------------------
(* Properties of the text block closed by a tool opening tag               *)

\* the step reads the last character of a tool opening tag while a text
\* block is open
ToolOpeningRecognized ==
    /\ pc = "scan"
    /\ currentToolUse = NilBlock
    /\ currentToolUse' # NilBlock
    /\ currentTextContent # NilBlock

\* the text between the start of the open text block and the opening tag
\* that the step recognizes
TextBeforeTag ==
    Slice(accumulator', currentTextContentStartIndex,
          Len(accumulator') - Len(OpeningTag(currentToolUse'.name)))

\* C21: when a tool opening tag is recognized, the text block closed at that
\* point is the trimmed text that preceded the tag and holds no character of
\* the tag, also when that text is empty or only white space.
C21_ClosedTextExcludesTag ==
    [][ToolOpeningRecognized =>
          /\ Len(contentBlocks') = Len(contentBlocks) + 1
          /\ contentBlocks'[Len(contentBlocks')].content
                = TrimSpace(TextBeforeTag)]_vars

\* C21 holds when the text before the tag has a character that is not white
\* space
C21_HoldsOfNonBlankText ==
    [][(ToolOpeningRecognized /\ TrimSpace(TextBeforeTag) # <<>>) =>
          /\ Len(contentBlocks') = Len(contentBlocks) + 1
          /\ contentBlocks'[Len(contentBlocks')].content
                = TrimSpace(TextBeforeTag)]_vars

-----------------------------------------------------------------------------
(* Properties of the matched ranges                                        *)

\* C22: every match computed during a call, by any strategy, satisfies
\* 0 <= start <= end <= length of the original content, so the cursor stays
\* within the original content, also when the matched lines are the last
\* lines of an original without a final line break.
C22_MatchesWithinOriginal ==
    /\ \A k \in 1..Len(matches) :
          /\ 0 <= matches[k].start
          /\ matches[k].start <= matches[k].end
          /\ matches[k].end <= Len(originalContent)
    /\ lastProcessedIndex <= Len(originalContent)

\* C22 holds of the matches found by the exact strategy and of an empty
\* search
C22_ExactMatchesWithinOriginal ==
    \A k \in 1..Len(matches) :
       matches[k].by \in {"exact", "empty"} =>
          /\ 0 <= matches[k].start
          /\ matches[k].start <= matches[k].end
          /\ matches[k].end <= Len(originalContent)

-----------------------------------------------------------------------------
(* Properties of the guard of the block-anchor fallback                    *)

\* C23: BlockAnchorFallbackMatch returns an error, never a match, for every
\* search body of fewer than 3 lines, the lines counted without the empty
\* piece that follows a final line break, whatever the original content and
\* the start index.
C23_ShortBodyIsAnError ==
    (/\ pc = "matched"
     /\ matcher = "anchor"
     /\ Len(CallSearchLines) < 3)
    => retErr

\* C23 holds of the search bodies of one line
C23_OneLineBodyIsAnError ==
    (/\ pc = "matched"
     /\ matcher = "anchor"
     /\ Len(CallSearchLines) < 2)
    => retErr

-----------------------------------------------------------------------------
(* Properties of the order of the match strategies                         *)

\* the offsets at or after from at which searchContent occurs in text
LiteralOccurrences(text, searchContent, from) ==
    {p \in from..(Len(text) - Len(searchContent)) :
        SubSeq(text, p + 1, p + Len(searchContent)) = searchContent}

\* C24: if the search body occurs as a literal substring at or after the
\* previous match end, the first such occurrence is the match, even when a
\* run of lines equal after trimming starts earlier; the line-trimmed
\* fallback gives the match only when there is no literal occurrence, and
\* the block-anchor fallback only when the line-trimmed fallback fails too.
C24_StrategyPriority ==
    \A k \in 1..Len(matches) :
       matches[k].by # "empty" =>
          LET searchLines == BlocksOf(diffContent)[k].search
              literal == LiteralOccurrences(originalContent,
                                            BodyText(searchLines),
                                            matches[k].from)
              runs == TrimmedRuns(originalContent, searchLines,
                                  matches[k].from)
          IN  /\ literal # {} =>
                    /\ matches[k].by = "exact"
                    /\ matches[k].start = Min(literal)
                    /\ matches[k].end
                         = Min(literal) + Len(BodyText(searchLines))
              /\ matches[k].by = "trimmed" => literal = {} /\ runs # {}
              /\ matches[k].by = "anchor" => literal = {} /\ runs = {}

\* C24: a block was matched to the first literal occurrence of its search
\* body, at the start of a line, while a run of lines equal to the body
\* after trimming starts before that occurrence.
C24_Witness ==
    /\ Done
    /\ status = "ok"
    /\ \E k \in 1..Len(matches) :
          /\ matches[k].by = "exact"
          /\ matches[k].start \in AfterBreaks(originalContent)
          /\ \E i \in TrimmedRuns(originalContent,
                                  BlocksOf(diffContent)[k].search,
                                  matches[k].from) :
                OffsetOfLine(originalContent, i) < matches[k].start

-----------------------------------------------------------------------------
(* Properties of Reload                                                    *)

\* the paths that do not name the ignore file
OrdinaryPaths == {p \in AccessPaths : ~Contains(p, IgnoreFileName)}

-----------------------------------------------------------------------------
(* Properties of where a matched range starts                              *)

\* offset p is where a line of text starts
AtLineStart(text, p) == p = 0 \/ p \in AfterBreaks(text)

\* C26: every matched range used by ConstructNewFileContent begins at the
\* start of a line of the original content, at offset 0 or just after a
\* line break, so that replace lines are never spliced into the middle of a
\* line.
C26_MatchesStartAtLineStart ==
    \A k \in 1..Len(matches) :
       AtLineStart(originalContent, matches[k].start)

\* C26 holds of the matches found by the two fallback strategies
C26_FallbackMatchesStartAtLineStart ==
    \A k \in 1..Len(matches) :
       matches[k].by \in {"trimmed", "anchor"} =>
          AtLineStart(originalContent, matches[k].start)

-----------------------------------------------------------------------------
(* Properties of a final call on a truncated diff                          *)

\* the call is final and completed, its diff starts with a SEARCH marker
\* and its last block had its divider and no REPLACE marker
TruncatedFinal ==
    /\ Done
    /\ HasPrefix(diffContent, SearchMarker \o <<NL>>)
    /\ isFinal
    /\ status = "ok"
    /\ inReplace
    /\ matches # <<>>

\* the original content that follows the range matched last
AfterLastMatch ==
    Slice(originalContent,
          Min({matches[Len(matches)].end, Len(originalContent)}),
          Len(originalContent))

\* C27: on a final call whose last block has its divider but no REPLACE
\* marker, the original text matched by the search body of that block is
\* not emitted again after the replace lines: what is appended to the
\* result is the original content that follows the matched range.
C27_TruncatedBlockNotRepeated ==
    TruncatedFinal => ret = result \o AfterLastMatch

\* C27 holds when the matched range is empty and the cursor is at its start
C27_HoldsOfEmptyRange ==
    (/\ TruncatedFinal
     /\ matches[Len(matches)].start = matches[Len(matches)].end
     /\ lastProcessedIndex = matches[Len(matches)].start)
    => ret = result \o AfterLastMatch

-----------------------------------------------------------------------------
(* Properties of the content parameter without a <content> tag             *)

\* the message has a write_to_file opening tag and no <content> opening tag
\* after it
NoContentOpening(message) ==
    /\ HasWriteToFile(message)
    /\ Index(AfterOpening(message), OpeningTag(ContentParam)) = -1

\* C28: in a write_to_file block the content parameter is only set from
\* text that follows a <content> opening tag: in a block without that tag
\* the content parameter stays unset, whatever </content> closing tags the
\* block has.
C28_ContentNeedsOpeningTag ==
    (Returned /\ NoContentOpening(accumulator))
    => \A k \in WriteToFileBlocks(parsed) :
          ContentParam \notin DOMAIN parsed[k].params

\* C28 holds when every </content> closing tag of the block starts within
\* the length of the <content> opening tag from the start of the block
C28_HoldsNearTheStart ==
    (/\ Returned
     /\ NoContentOpening(accumulator)
     /\ LastIndex(AfterOpening(accumulator), ClosingTag(ContentParam))
          < Len(OpeningTag(ContentParam)))
    => \A k \in WriteToFileBlocks(parsed) :
          ContentParam \notin DOMAIN parsed[k].params

-----------------------------------------------------------------------------
(* ValidateAccess called by one goroutine while the watcher's goroutine    *)
(* reloads the controller.  No lock guards Controller.ignoreInstance:      *)
(* the call reads the field at line 74 and again at line 94, and Reload    *)
(* may write it in between.                                                *)

\* the paths asked for while the watcher runs
RacePaths == {<<".", "e", "n", "v">>, <<"R", "E", "A", "D", "M", "E">>}

\* ignore.go:72-76: the call starts and tests the field against nil
NilCheck ==
    /\ pc = "ignore"
    /\ asked # "checking"
    /\ watchPc \in {"select", "reload"}
    /\ \E filePath \in RacePaths :
          /\ accessPath' = filePath
          /\ IF ignoreInstance.nil
             THEN asked' = "access" /\ accessRet' = TRUE
             ELSE asked' = "checking" /\ accessRet' = accessRet
    /\ commandLine' = <<>>
    /\ commandRet' = <<>>
    /\ UNCHANGED <<fileExists, fileContent, fileModTime, golineIgnoreContent,
                   ignoreInstance, lastModTime, watchPc, stopChan, tickerC,
                   change, replaced>>
    /\ UNCHANGED outsideIgnore

\* ignore.go:79-94: the call reads the field again and matches the path;
\* MatchesPath of a nil instance reads the patterns through a nil pointer
\* and the program aborts
MatchPath ==
    /\ pc = "ignore"
    /\ asked = "checking"
    /\ IF ignoreInstance.nil
       THEN /\ asked' = "aborted"
            /\ accessRet' = accessRet
            /\ pc' = "aborted"
       ELSE /\ asked' = "access"
            /\ accessRet' = ValidateAccess(ignoreInstance, accessPath)
            /\ pc' = pc
    /\ UNCHANGED <<fileExists, fileContent, fileModTime, golineIgnoreContent,
                   ignoreInstance, accessPath, commandLine, commandRet,
                   lastModTime, watchPc, stopChan, tickerC, change, replaced>>
    /\ UNCHANGED <<diffVars, parseVars, streamVars, matchVars, splitVars,
                   providerVars>>

NextRace ==
    \/ WriteFile
    \/ RemoveFile
    \/ Initialize
    \/ Start
    \/ TickerFires
    \/ CheckForChanges
    \/ WatcherReload
    \/ NilCheck
    \/ MatchPath

SpecRace == InitIgnore /\ [][NextRace]_vars

\* C29: a call of ValidateAccess that runs while the watcher's goroutine
\* reloads the controller always completes with a decision made on the old
\* or on the new patterns: it never uses patterns that the reload cleared
\* between its nil check and its match, the file being deleted in between.
C29_NeverUsesClearedPatterns == asked # "aborted"

-----------------------------------------------------------------------------
(* Provider.CreateMessage (internal/provider/anthropic/anthropic.go and    *)
(* the deepseek provider): the call makes an unbuffered channel, starts a  *)
(* goroutine that sends the events of the response on it and returns the   *)
(* channel.  Every send is a plain "eventCh <- event": it waits for the    *)
(* consumer to receive.  The goroutine closes the channel when it returns  *)
(* (defer close(eventCh)).                                                 *)

MaxLines == 2    \* lines that the response delivers
MaxSends == 2    \* events sent for one line: a line break and a text

outsideProvider ==
    <<diffVars, parseVars, streamVars, matchVars, splitVars, ignoreVars, pc>>

\* the state when CreateMessage returns: the goroutine was started and is
\* about to send the request, the consumer ranges over the channel
InitProvider ==
    /\ goPc = "do"
    /\ pendingEvents = 0
    /\ returnAfter = FALSE
    /\ eventCh = "open"
    /\ upstream = "live"
    /\ ctx = "live"
    /\ consumer = "receiving"
    /\ linesLeft \in 0..MaxLines
    /\ received = 0
    /\ DiffIdle
    /\ ParserIdle
    /\ MatcherIdle
    /\ SplitIdle
    /\ IgnoreIdle
    /\ pc = "provider"

\* the response ends: end of the body, or the [DONE] line
UpstreamEnds ==
    /\ pc = "provider"
    /\ upstream = "live"
    /\ upstream' = "ended"
    /\ UNCHANGED <<goPc, pendingEvents, returnAfter, eventCh, ctx, consumer,
                   linesLeft, received>>
    /\ UNCHANGED outsideProvider

\* the response fails: no connection, an error status, a broken stream
UpstreamFails ==
    /\ pc = "provider"
    /\ upstream = "live"
    /\ upstream' = "failed"
    /\ UNCHANGED <<goPc, pendingEvents, returnAfter, eventCh, ctx, consumer,
                   linesLeft, received>>
    /\ UNCHANGED outsideProvider

\* the caller cancels the context of the call
CancelContext ==
    /\ pc = "provider"
    /\ ctx = "live"
    /\ ctx' = "cancelled"
    /\ UNCHANGED <<goPc, pendingEvents, returnAfter, eventCh, upstream,
                   consumer, linesLeft, received>>
    /\ UNCHANGED outsideProvider

\* the consumer leaves its loop over the channel
ConsumerStops ==
    /\ pc = "provider"
    /\ consumer = "receiving"
    /\ consumer' = "stopped"
    /\ UNCHANGED <<goPc, pendingEvents, returnAfter, eventCh, upstream, ctx,
                   linesLeft, received>>
    /\ UNCHANGED outsideProvider

\* anthropic.go:220-228 and 232-240: the request fails or is answered with
\* an error status; an error event is to be sent before the return
RequestFails ==
    /\ pc = "provider"
    /\ goPc = "do"
    /\ upstream = "failed" \/ ctx = "cancelled"
    /\ pendingEvents' = 1
    /\ returnAfter' = TRUE
    /\ goPc' = "send"
    /\ UNCHANGED <<eventCh, upstream, ctx, consumer, linesLeft, received>>
    /\ UNCHANGED outsideProvider

\* anthropic.go:220-243: the request is answered, the loop begins
RequestSucceeds ==
    /\ pc = "provider"
    /\ goPc = "do"
    /\ upstream # "failed"
    /\ ctx = "live"
    /\ goPc' = "read"
    /\ UNCHANGED <<pendingEvents, returnAfter, eventCh, upstream, ctx,
                   consumer, linesLeft, received>>
    /\ UNCHANGED outsideProvider

\* anthropic.go:245-363: a line is read; it is skipped or gives one or two
\* events to send before the next line is read
ReadLine ==
    /\ pc = "provider"
    /\ goPc = "read"
    /\ upstream = "live"
    /\ ctx = "live"
    /\ linesLeft > 0
    /\ linesLeft' = linesLeft - 1
    /\ \E n \in 0..MaxSends :
          /\ pendingEvents' = n
          /\ goPc' = IF n = 0 THEN "read" ELSE "send"
    /\ returnAfter' = FALSE
    /\ UNCHANGED <<eventCh, upstream, ctx, consumer, received>>
    /\ UNCHANGED outsideProvider

\* anthropic.go:247-250 and 265-267: the stream closed normally; the
\* goroutine returns and the deferred close runs
ReadEnd ==
    /\ pc = "provider"
    /\ goPc = "read"
    /\ upstream = "ended"
    /\ goPc' = "done"
    /\ eventCh' = "closed"
    /\ UNCHANGED <<pendingEvents, returnAfter, upstream, ctx, consumer,
                   linesLeft, received>>
    /\ UNCHANGED outsideProvider

\* anthropic.go:251-256: reading fails, as it does once the context is
\* cancelled; an error event is to be sent before the return
ReadFails ==
    /\ pc = "provider"
    /\ goPc = "read"
    /\ upstream = "failed" \/ ctx = "cancelled"
    /\ pendingEvents' = 1
    /\ returnAfter' = TRUE
    /\ goPc' = "send"
    /\ UNCHANGED <<eventCh, upstream, ctx, consumer, linesLeft, received>>
    /\ UNCHANGED outsideProvider

\* "eventCh <- provider.StreamEvent{...}" on the unbuffered channel: the
\* send completes when the consumer receives; after the last event of an
\* error the goroutine returns and the deferred close runs
Send ==
    /\ pc = "provider"
    /\ goPc = "send"
    /\ consumer = "receiving"
    /\ pendingEvents' = pendingEvents - 1
    /\ received' = received + 1
    /\ goPc' = IF pendingEvents > 1 THEN "send"
               ELSE IF returnAfter THEN "done" ELSE "read"
    /\ eventCh' = IF pendingEvents = 1 /\ returnAfter THEN "closed"
                  ELSE eventCh
    /\ UNCHANGED <<returnAfter, upstream, ctx, consumer, linesLeft>>
    /\ UNCHANGED outsideProvider

NextProvider ==
    \/ UpstreamEnds
    \/ UpstreamFails
    \/ CancelContext
    \/ ConsumerStops
    \/ RequestFails
    \/ RequestSucceeds
    \/ ReadLine
    \/ ReadEnd
    \/ ReadFails
    \/ Send

SpecProvider == InitProvider /\ [][NextProvider]_vars

\* the goroutine is scheduled: a request that can return returns, a read
\* that can return returns, and a send completes while the consumer
\* receives
SpecProviderFair ==
    /\ SpecProvider
    /\ WF_vars(RequestFails \/ RequestSucceeds)
    /\ WF_vars(ReadEnd)
    /\ WF_vars(ReadFails)
    /\ WF_vars(Send)

-----------------------------------------------------------------------------
(* Properties of the goroutine of CreateMessage                            *)

\* the upstream response ended or failed, or the context was cancelled
UpstreamOver == upstream \in {"ended", "failed"} \/ ctx = "cancelled"

\* the goroutine returned and closed the event channel
Closed == goPc = "done" /\ eventCh = "closed"

\* C30: once the upstream response ends or fails or the context is
\* cancelled, the goroutine started by CreateMessage terminates and closes
\* the event channel, also when the consumer has stopped receiving.
C30_GoroutineTerminates == UpstreamOver ~> Closed

\* C30 holds for as long as the consumer receives
C30_HoldsWhileConsumerReceives ==
    UpstreamOver ~> (Closed \/ consumer = "stopped")
====
